---- MODULE Spec2Model ----
(***************************************************************************)
(* A model of the object repository of acid-store: the in-memory state of  *)
(* ObjectRepo (chunk map, pack map, managed map, handle table, savepoint   *)
(* table, metadata), the blocks of the backing data store, and the public  *)
(* operations of src/src/repo/common/repository.rs.                        *)
(***************************************************************************)
EXTENDS Integers, Sequences, FiniteSets, TLC

(* ------------------------------ bounds -------------------------------- *)

\* The highest handle ID the handle table may hand out.
MaxHandleId == 3

\* The number of fresh UUIDs that may be drawn for data blocks and packs.
MaxUuid == 4

\* The number of header blocks that may be written.
MaxHeaders == 3

\* The number of savepoints that may be created.
MaxSavepoints == 1

\* The number of unmanaged handles (live or stale) the caller keeps.
MaxHeld == 1

\* The number of operations in a run of Spec.
MaxSteps == 5

\* The number of operations in a run of ShortSpec.
MaxShortSteps == 4

\* The number of operations in a run of VerifySpec.
MaxVerifySteps == 5

\* The number of writes and removals of a run of MemorySpec.
MaxStoreCalls == 2

\* The most cells of an archive file.
MaxArchiveLen == 6

\* The number of password changes of a run.
MaxSalts == 1

(* ----------------------------- constants ------------------------------ *)

METADATA_BLOCK_ID == 0
VERSION_BLOCK_ID == 1

\* Uuid::new_v4(): the n-th fresh UUID drawn for a data block or a pack, and
\* the n-th drawn for a header block.
Uuid(n) == VERSION_BLOCK_ID + n
HeaderUuid(n) == METADATA_BLOCK_ID - n

REPO_ID == "repo"

Instances == {"A", "B"}
ObjectIds == {"x", "y"}

\* The contents of a data chunk, which is also its hash.
DataChunks == {1, 2}

\* The byte sequences the caller writes, as the chunks the chunker cuts them
\* into; equal chunks have one hash, which the handle then lists twice.
Contents == {<<>>, <<1>>, <<1, 1>>, <<1, 2>>}

\* The savepoint of another repository, whose Arc is alive in that repository.
ForeignSavepoint == MaxSavepoints + 1

EmptyFn == [x \in {} |-> 0]

Without(f, k) == [x \in DOMAIN f \ {k} |-> f[x]]

With(f, k, v) == [x \in DOMAIN f \cup {k} |-> IF x = k THEN v ELSE f[x]]

Range(s) == {s[i] : i \in DOMAIN s}

(* ------------------------------ IdTable ------------------------------- *)

IdTable_new == [highest |-> 0, unused |-> {}]

IdTable_contains(t, id) == id >= 1 /\ id <= t.highest /\ id \notin t.unused

\* The IDs next() may return: a recycled ID if there is one, else a new one.
IdTable_next_ids(t) == IF t.unused # {} THEN t.unused ELSE {t.highest + 1}

\* The table after next() returned id.
IdTable_next(t, id) ==
    IF id \in t.unused
    THEN [t EXCEPT !.unused = @ \ {id}]
    ELSE [t EXCEPT !.highest = id]

IdTable_recycle(t, id) ==
    IF IdTable_contains(t, id) THEN [t EXCEPT !.unused = @ \cup {id}] ELSE t

(* ------------------------- headers and blocks ------------------------- *)

Header(c, p, m, t) == [chunks |-> c, packs |-> p, managed |-> m, handle_table |-> t]

NoHeader == Header(EmptyFn, EmptyFn, EmptyFn, IdTable_new)

ObjectHandle(inst, id, cs) ==
    [repo_id |-> REPO_ID, instance_id |-> inst, handle_id |-> id,
     size |-> Len(cs), chunks |-> cs]

\* A block of the data store.  body: the chunks of a data block or pack, by
\* block ID; layers and hdr: a header block, hdr encoded layers times;
\* header_id: the metadata block.
Block(kind, body, layers, hdr, header_id) ==
    [kind |-> kind, body |-> body, layers |-> layers, hdr |-> hdr,
     header_id |-> header_id, salt |-> 0]

DataBlock(body) == Block("data", body, 0, NoHeader, 0)
HeaderBlock(bytes) == Block("header", EmptyFn, bytes.layers, bytes.hdr, 0)
MetadataBlock(md) ==
    [Block("metadata", EmptyFn, 0, NoHeader, md.header_id) EXCEPT !.salt = md.salt]
VersionBlock == Block("version", EmptyFn, 0, NoHeader, 0)

VARIABLES
    config,        \* state.metadata.config: [packing, encoding]
    metadata,      \* state.metadata: [header_id, salt]
    chunks,        \* state.chunks: hash -> [block_id, references]
    packs,         \* state.packs: block ID -> pack ID
    managed,       \* instance ID -> object ID -> handle
    handle_table,  \* the IdTable
    savepoints,    \* savepoint ID -> handle
    instance_id,   \* the current instance
    store,         \* the data store: block ID -> Block
    handles,       \* the unmanaged handles the caller holds
    serialized,    \* the headers that savepoints serialized, by chunk hash
    uuids,         \* the number of UUIDs drawn for data blocks and packs
    header_ids,    \* the number of UUIDs drawn for header blocks
    created,       \* the number of savepoints created so far
    steps,         \* the number of operations left in the run
    saved,         \* savepoint ID -> the header when it was created, and
                   \* whether only objects were added, removed and written
                   \* since
    last,          \* the last operation and its result
    committed,     \* the header as of the return of the last successful commit
    memory,        \* a MemoryStore: its BlockMap, the writes and removals so
                   \* far, and the last call with what it returned
    directory,     \* a DirectoryStore: the files of its blocks and staging
                   \* directories, and the last call with what it returned
    archive,       \* an archive file: its two superblock copies, which of
                   \* them were corrupted, and the last call with what it
                   \* returned
    header_file    \* an archive file with a header: its cells, and the last
                   \* call with what it returned

\* The variables of the repository.
repo_vars == <<config, metadata, chunks, packs, managed, handle_table, savepoints,
               instance_id, store, handles, serialized, uuids, header_ids, created,
               steps, saved, last, committed>>

vars == <<repo_vars, memory, directory, archive, header_file>>

\* The four parts of the in-memory state that a Header holds.
clone_header == Header(chunks, packs, managed, handle_table)

(* ------------------------------ encoding ------------------------------ *)

\* to_vec(&header): serialized, not encoded bytes.
to_vec(hdr) == [layers |-> 0, hdr |-> hdr]

\* state.encode_data: the identity without compression and encryption,
\* else one more layer of encoding.
encode_data(bytes) ==
    IF config.encoding = "none" THEN bytes
    ELSE [bytes EXCEPT !.layers = @ + 1]

\* state.decode_data: fails on data which is not encoded.
decode_data(bytes) ==
    IF config.encoding = "none" THEN [ok |-> TRUE, bytes |-> bytes]
    ELSE IF bytes.layers = 0 THEN [ok |-> FALSE, bytes |-> bytes]
    ELSE [ok |-> TRUE, bytes |-> [bytes EXCEPT !.layers = @ - 1]]

\* from_read: fails on bytes which are not a serialized header.
from_read(bytes) ==
    IF bytes.layers = 0 THEN [ok |-> TRUE, hdr |-> bytes.hdr]
    ELSE [ok |-> FALSE, hdr |-> NoHeader]

\* Read, decode and deserialize the header block header_id of the store st.
read_header(st, header_id) ==
    IF header_id \notin DOMAIN st \/ st[header_id].kind # "header"
    THEN [ok |-> FALSE, hdr |-> NoHeader]
    ELSE LET dec == decode_data([layers |-> st[header_id].layers,
                                 hdr |-> st[header_id].hdr])
         IN IF dec.ok THEN from_read(dec.bytes)
            ELSE [ok |-> FALSE, hdr |-> NoHeader]

\* A fresh open of the store st: the header named by the stored metadata block.
open_repo(st) ==
    IF METADATA_BLOCK_ID \notin DOMAIN st
    THEN [ok |-> FALSE, hdr |-> NoHeader]
    ELSE read_header(st, st[METADATA_BLOCK_ID].header_id)

(* ---------------------------- construction ---------------------------- *)

\* The header of a new repository: no data, and the current instance's
\* (empty) map of managed objects.
NewHeader == Header(EmptyFn, EmptyFn, [i \in {"A"} |-> EmptyFn], IdTable_new)

Configs == [packing : {"None", "Fixed"}, encoding : {"none", "keyed"}]

(* ----------------------------- MemoryStore ---------------------------- *)

\* Option<T>.
None == <<>>

Some(v) == <<v>>

BlockIds == {1, 2}

BlockTypes == {"Data", "Lock", "Header"}

\* BlockKey: Data(id), Lock(id), Header(id), Super, Version.
BlockKeys ==
    [kind : BlockTypes, id : BlockIds] \cup [kind : {"Super", "Version"}, id : {0}]

\* The bytes the caller writes, and the buffers and lists it passes.
BlockBytes == {<<>>, <<1, 1>>}

Buffers == {<<>>, <<7>>}

BlockMap_default ==
    [data |-> EmptyFn, locks |-> EmptyFn, headers |-> EmptyFn,
     superblock |-> None, version |-> None]

\* MemoryConfig::new and open: a store over an empty BlockMap.
MemoryConfig_new ==
    [blocks |-> BlockMap_default, history |-> <<>>,
     call |-> [op |-> "open", ok |-> TRUE]]

\* HashMap::get.
get(map, id) == IF id \in DOMAIN map THEN Some(map[id]) ELSE None

\* write_block which keeps the blocks of all types in one map.
MemoryStore_write_block_one_map(block_map, key, data) ==
    IF key.kind \in BlockTypes
    THEN [block_map EXCEPT !.data = With(@, key.id, data)]
    ELSE IF key.kind = "Super" THEN [block_map EXCEPT !.superblock = Some(data)]
    ELSE [block_map EXCEPT !.version = Some(data)]

MemoryStore_write_block(block_map, key, data) ==
    IF key.kind = "Data" THEN [block_map EXCEPT !.data = With(@, key.id, data)]
    ELSE IF key.kind = "Lock" THEN [block_map EXCEPT !.locks = With(@, key.id, data)]
    ELSE IF key.kind = "Header"
    THEN [block_map EXCEPT !.headers = With(@, key.id, data)]
    ELSE IF key.kind = "Super" THEN [block_map EXCEPT !.superblock = Some(data)]
    ELSE [block_map EXCEPT !.version = Some(data)]

\* read_block: the buffer afterwards and the returned Option<usize>.
MemoryStore_read_block(block_map, key, buf) ==
    LET maybe_bytes ==
            IF key.kind = "Data" THEN get(block_map.data, key.id)
            ELSE IF key.kind = "Lock" THEN get(block_map.locks, key.id)
            ELSE IF key.kind = "Header" THEN get(block_map.headers, key.id)
            ELSE IF key.kind = "Super" THEN block_map.superblock
            ELSE block_map.version
    IN IF maybe_bytes # None
       THEN [buf |-> buf \o maybe_bytes[1], ret |-> Some(Len(maybe_bytes[1]))]
       ELSE [buf |-> buf, ret |-> None]

MemoryStore_remove_block(block_map, key) ==
    IF key.kind = "Data" THEN [block_map EXCEPT !.data = Without(@, key.id)]
    ELSE IF key.kind = "Lock" THEN [block_map EXCEPT !.locks = Without(@, key.id)]
    ELSE IF key.kind = "Header" THEN [block_map EXCEPT !.headers = Without(@, key.id)]
    ELSE IF key.kind = "Super" THEN [block_map EXCEPT !.superblock = None]
    ELSE [block_map EXCEPT !.version = None]

\* The sequences which hold each element of the set ids once: the orders in
\* which the keys of a HashMap come.
Orders(ids) ==
    {o \in [1 .. Cardinality(ids) -> ids] : Range(o) = ids}

\* list_blocks: the IDs which are appended to the list.
MemoryStore_list_blocks(block_map, kind) ==
    IF kind = "Data" THEN DOMAIN block_map.data
    ELSE IF kind = "Lock" THEN DOMAIN block_map.locks
    ELSE DOMAIN block_map.headers

\* The calls of a MemoryStore.  The variables of the repository and of the
\* other stores stay as they are.
write_block(key, data) ==
    /\ Len(memory.history) < MaxStoreCalls
    /\ memory' = [blocks |-> MemoryStore_write_block(memory.blocks, key, data),
                  history |-> Append(memory.history,
                                     [op |-> "write_block", key |-> key, data |-> data]),
                  call |-> [op |-> "write_block", key |-> key, ok |-> TRUE]]
    /\ UNCHANGED <<repo_vars, directory, archive, header_file>>

read_block(key, buf) ==
    /\ LET r == MemoryStore_read_block(memory.blocks, key, buf)
       IN memory' = [memory EXCEPT !.call =
                       [op |-> "read_block", key |-> key, ok |-> TRUE,
                        given |-> buf, buf |-> r.buf, ret |-> r.ret]]
    /\ UNCHANGED <<repo_vars, directory, archive, header_file>>

remove_block(key) ==
    /\ Len(memory.history) < MaxStoreCalls
    /\ memory' = [blocks |-> MemoryStore_remove_block(memory.blocks, key),
                  history |-> Append(memory.history,
                                     [op |-> "remove_block", key |-> key]),
                  call |-> [op |-> "remove_block", key |-> key, ok |-> TRUE]]
    /\ UNCHANGED <<repo_vars, directory, archive, header_file>>

list_blocks(kind, list) ==
    /\ \E o \in Orders(MemoryStore_list_blocks(memory.blocks, kind)) :
          memory' = [memory EXCEPT !.call =
                       [op |-> "list_blocks", kind |-> kind, ok |-> TRUE,
                        given |-> list, list |-> list \o o]]
    /\ UNCHANGED <<repo_vars, directory, archive, header_file>>

(* ---------------------------- DirectoryStore --------------------------- *)

\* DirectoryStore::create: the root with its version file, no block file
\* and no staging file.
DirectoryStore_create ==
    [blocks |-> EmptyFn, staged |-> {}, call |-> [op |-> "create", ret |-> "Ok"]]

\* write_block: the staging file is created and written, renamed to the
\* block path, and the staging directory is removed.  fail names the file
\* system call which returns an error.
DirectoryStore_write_block(dir, id, data, fail) ==
    IF fail = "create" THEN [dir |-> dir, ret |-> "Err"]
    ELSE IF fail \in {"write_all", "rename"}
    THEN [dir |-> [dir EXCEPT !.staged = @ \cup {id}], ret |-> "Err"]
    ELSE IF fail = "remove_dir_all"
    THEN [dir |-> [dir EXCEPT !.blocks = With(@, id, data)], ret |-> "Err"]
    ELSE [dir |-> [dir EXCEPT !.blocks = With(@, id, data), !.staged = {}],
          ret |-> "Ok"]

\* read_block: the bytes of the block file, a panic when there is none.
DirectoryStore_read_block(dir, id, fail) ==
    IF id \in DOMAIN dir.blocks
    THEN IF fail THEN [ret |-> "Err", bytes |-> <<>>]
         ELSE [ret |-> "Ok", bytes |-> dir.blocks[id]]
    ELSE [ret |-> "panic", bytes |-> <<>>]

\* remove_block: remove_file of the block path, which is an error (NotFound)
\* when there is no such file.
DirectoryStore_remove_block(dir, id) ==
    IF id \in DOMAIN dir.blocks
    THEN [dir |-> [dir EXCEPT !.blocks = Without(@, id)], ret |-> "Ok"]
    ELSE [dir |-> dir, ret |-> "Err"]

\* list_blocks: the names of the files below the blocks directory.
DirectoryStore_list_blocks(dir) == DOMAIN dir.blocks

\* The calls of a DirectoryStore, with what they returned.  stored: the
\* block was stored before the call; before: the block files before it.
DirectoryCall(op, id, ret, bytes) ==
    [op |-> op, id |-> id, stored |-> id \in DOMAIN directory.blocks,
     before |-> directory.blocks, ret |-> ret, bytes |-> bytes]

directory_write_block(id, data, fail) ==
    /\ LET r == DirectoryStore_write_block(directory, id, data, fail)
       IN directory' = [r.dir EXCEPT
                          !.call = DirectoryCall("write_block", id, r.ret, <<>>)]
    /\ UNCHANGED <<repo_vars, memory, archive, header_file>>

directory_read_block(id, fail) ==
    /\ LET r == DirectoryStore_read_block(directory, id, fail)
       IN directory' = [directory EXCEPT
                          !.call = DirectoryCall("read_block", id, r.ret, r.bytes)]
    /\ UNCHANGED <<repo_vars, memory, archive, header_file>>

directory_remove_block(id) ==
    /\ LET r == DirectoryStore_remove_block(directory, id)
       IN directory' = [r.dir EXCEPT
                          !.call = DirectoryCall("remove_block", id, r.ret, <<>>)]
    /\ UNCHANGED <<repo_vars, memory, archive, header_file>>

directory_list_blocks ==
    /\ directory' = [directory EXCEPT !.call =
                        [op |-> "list_blocks", ret |-> "Ok",
                         list |-> DirectoryStore_list_blocks(directory)]]
    /\ UNCHANGED <<repo_vars, memory, archive, header_file>>

(* ------------------------------ SuperBlock ----------------------------- *)

\* The superblocks an archive may have, and the length of a serialized one.
SuperBlocks == {1, 2}

SuperBlockLen == 1

\* The bytes of a copy which do not deserialize, and a copy which ends
\* before its size field.
Garbage == 0

Truncated == [size |-> 0, payload |-> Garbage, short |-> TRUE]

\* write_at: the size of the serialized superblock, and the superblock.
write_at(superblock) ==
    [size |-> SuperBlockLen, payload |-> superblock, short |-> FALSE]

\* read_at: read_exact of the size fails on a copy which is cut short;
\* from_read of the size bytes which follow fails on bytes which are no
\* superblock and on a size which ends the bytes early.
read_at(copy) ==
    IF copy.short THEN [ok |-> FALSE, kind |-> "UnexpectedEof", superblock |-> Garbage]
    ELSE IF copy.size < SuperBlockLen \/ copy.payload \notin SuperBlocks
    THEN [ok |-> FALSE, kind |-> "InvalidData", superblock |-> Garbage]
    ELSE [ok |-> TRUE, kind |-> "none", superblock |-> copy.payload]

\* An archive which was created with the superblock 1.
Archive_create ==
    [primary |-> write_at(1), backup |-> write_at(1), corrupted |-> {},
     written |-> 1, call |-> [op |-> "create", ok |-> TRUE]]

\* SuperBlock::read of the file f; fail: the write_at of the repair returns
\* an error.
SuperBlock_read(f, fail) ==
    LET primary_superblock == read_at(f.primary)
        backup_superblock  == read_at(f.backup)
    IN IF primary_superblock.ok /\ backup_superblock.ok
       THEN [file |-> f, ok |-> TRUE, kind |-> "none",
             superblock |-> primary_superblock.superblock]
       ELSE IF primary_superblock.ok
       THEN IF fail
            THEN [file |-> f, ok |-> FALSE, kind |-> "Io", superblock |-> Garbage]
            ELSE [file |-> [f EXCEPT !.backup = write_at(primary_superblock.superblock)],
                  ok |-> TRUE, kind |-> "none",
                  superblock |-> primary_superblock.superblock]
       ELSE IF backup_superblock.ok
       THEN IF fail
            THEN [file |-> f, ok |-> FALSE, kind |-> "Io", superblock |-> Garbage]
            ELSE [file |-> [f EXCEPT !.primary = write_at(backup_superblock.superblock)],
                  ok |-> TRUE, kind |-> "none",
                  superblock |-> backup_superblock.superblock]
       ELSE IF primary_superblock.kind = "InvalidData"
               /\ backup_superblock.kind = "InvalidData"
       THEN [file |-> f, ok |-> FALSE, kind |-> "InvalidData", superblock |-> Garbage]
       ELSE [file |-> f, ok |-> FALSE, kind |-> primary_superblock.kind,
             superblock |-> Garbage]

\* SuperBlock::write of the file f; fail names the write_at which returns an
\* error and writes nothing.
SuperBlock_write(f, superblock, fail) ==
    IF fail = "primary" THEN [file |-> f, ok |-> FALSE]
    ELSE IF fail = "backup"
    THEN [file |-> [f EXCEPT !.primary = write_at(superblock)], ok |-> FALSE]
    ELSE [file |-> [f EXCEPT !.primary = write_at(superblock),
                             !.backup = write_at(superblock)],
          ok |-> TRUE]

\* The calls on the archive file.  corrupted: the copies which were damaged
\* since they were last written; written: the superblock of the last write
\* which returned Ok.  A superblock is written by a process which created
\* or read the archive.
superblock_read(fail) ==
    /\ LET r == SuperBlock_read(archive, fail)
       IN archive' = [r.file EXCEPT
                        !.corrupted = {c \in @ : r.file[c] = archive[c]},
                        !.call = [op |-> "read", ok |-> r.ok, kind |-> r.kind,
                                  superblock |-> r.superblock,
                                  corrupted |-> archive.corrupted,
                                  failed |-> fail]]
    /\ UNCHANGED <<repo_vars, memory, directory, header_file>>

superblock_write(superblock, fail) ==
    /\ archive.call.op \in {"create", "read", "write"}
    /\ archive.call.op = "read" => archive.call.ok
    /\ LET r == SuperBlock_write(archive, superblock, fail)
       IN archive' = [r.file EXCEPT
                        !.corrupted = {c \in @ : r.file[c] = archive[c]},
                        !.written = IF r.ok THEN superblock ELSE @,
                        !.call = [op |-> "write", ok |-> r.ok]]
    /\ UNCHANGED <<repo_vars, memory, directory, header_file>>

\* The environment damages one copy: its bytes become garbage, or another
\* superblock, or its size field becomes zero or larger, or the file is cut
\* before the backup copy.
corrupt(copy, how) ==
    /\ copy \notin archive.corrupted
    /\ how = "truncated" => copy = "backup"
    /\ how = "superblock" => archive[copy].payload \in SuperBlocks
    /\ archive' = [archive EXCEPT
                     ![copy] = IF how = "garbage" THEN [@ EXCEPT !.payload = Garbage]
                               ELSE IF how = "superblock"
                               THEN [@ EXCEPT !.payload =
                                       CHOOSE v \in SuperBlocks : v # archive[copy].payload]
                               ELSE IF how = "size_0" THEN [@ EXCEPT !.size = 0]
                               ELSE IF how = "size_2" THEN [@ EXCEPT !.size = 2]
                               ELSE Truncated,
                     !.corrupted = @ \cup {copy},
                     !.call = [op |-> "corrupt", ok |-> TRUE]]
    /\ UNCHANGED <<repo_vars, memory, directory, header_file>>

(* --------------------- the header of a file archive -------------------- *)

\* header.rs.  The archive file is a sequence of cells; the cell at
\* position 0 is the header offset field, a size field is one cell, and
\* offsets and sizes count cells.  Positions start at 0 as in the code, so
\* the cell at position p is bytes[p + 1].

\* The headers a caller may write, each serialized to as many cells as its
\* number.
ArchiveHeaders == {1, 2}

encode_to_vec(header) == [i \in 1..header |-> header]

\* decode::from_read: the serialization is self-delimiting, so the cells
\* after a complete header are not looked at; cells which end early or do
\* not start a header are an error.
decode_from_read(cells) ==
    IF /\ cells # <<>>
       /\ cells[1] \in ArchiveHeaders
       /\ Len(cells) >= cells[1]
       /\ \A i \in 1..cells[1] : cells[i] = cells[1]
    THEN [ok |-> TRUE, header |-> cells[1]]
    ELSE [ok |-> FALSE, header |-> 0]

\* The size of a block and the position of the first block, in cells.
BLOCK_SIZE == 2

BLOCK_OFFSET == 1

\* A new archive: the offset field names the header 1 which follows it.
HeaderFile_create == <<1, 1, 1>>

HeaderAddress(offset, header_size, archive_size) ==
    [offset |-> offset, header_size |-> header_size, archive_size |-> archive_size]

NoAddress == HeaderAddress(0, 0, 0)

\* File::open: the handle of an existing file, opened read-only.
File_open == [read |-> TRUE, write |-> FALSE]

\* write_all at a position of the file: an error on a handle which was not
\* opened for writing, else the cells are overwritten and the file grows as
\* needed.
write_all(bytes, file, position, cells) ==
    IF ~ file.write THEN [ok |-> FALSE, bytes |-> bytes]
    ELSE [ok |-> TRUE,
          bytes |-> [p \in 1..(IF Len(bytes) > position + Len(cells)
                                THEN Len(bytes) ELSE position + Len(cells)) |->
                        IF p > position /\ p <= position + Len(cells)
                        THEN cells[p - position]
                        ELSE IF p <= Len(bytes) THEN bytes[p] ELSE 0]]

\* pad_to_block_size: zero cells are appended up to the next multiple of the
\* block size; a file which ends on a block boundary gets a whole block.
pad_to_block_size(bytes, file) ==
    LET position == Len(bytes)
        padding_size == BLOCK_SIZE - ((position - BLOCK_OFFSET) % BLOCK_SIZE)
    IN write_all(bytes, file, position, [i \in 1..padding_size |-> 0])

\* Header::read: the offset field, the size field at the offset, and the
\* header decoded from at most that many cells after it.
Header_read(bytes) ==
    LET archive_size == Len(bytes)
        offset == bytes[1]
        header_size == bytes[offset + 1]
        last_cell == IF offset + 1 + header_size < archive_size
                     THEN offset + 1 + header_size ELSE archive_size
        decoded == decode_from_read(SubSeq(bytes, offset + 2, last_cell))
    IN IF archive_size < 1 \/ ~ offset < archive_size \/ ~ decoded.ok
       THEN [ok |-> FALSE, header |-> 0, address |-> NoAddress]
       ELSE [ok |-> TRUE, header |-> decoded.header,
             address |-> HeaderAddress(offset, header_size, archive_size)]

\* Header::write.  The offset is the end of the file before the padding;
\* the padding, the size of the serialized header, the serialized header
\* and the offset field are written in this order, and the first write
\* which fails ends the call.  kill: the number of writes after which the
\* process is killed, KILL_NEVER when it is not.
KILL_NEVER == 4

Header_write(bytes, header, kill) ==
    LET file == File_open
        offset == Len(bytes)
        serialized_header == encode_to_vec(header)
        w1 == pad_to_block_size(bytes, file)
        w2 == write_all(w1.bytes, file, Len(w1.bytes), <<Len(serialized_header)>>)
        w3 == write_all(w2.bytes, file, Len(w2.bytes), serialized_header)
        w4 == write_all(w3.bytes, file, 0, <<offset>>)
        Killed(b) == [ret |-> "killed", bytes |-> b, address |-> NoAddress]
        Err(b) == [ret |-> "Err", bytes |-> b, address |-> NoAddress]
    IN IF kill = 0 THEN Killed(bytes)
       ELSE IF ~ w1.ok THEN Err(bytes)
       ELSE IF kill = 1 THEN Killed(w1.bytes)
       ELSE IF ~ w2.ok THEN Err(w1.bytes)
       ELSE IF kill = 2 THEN Killed(w2.bytes)
       ELSE IF ~ w3.ok THEN Err(w2.bytes)
       ELSE IF kill = 3 THEN Killed(w3.bytes)
       ELSE IF ~ w4.ok THEN Err(w3.bytes)
       ELSE [ret |-> "Ok", bytes |-> w4.bytes,
             address |-> HeaderAddress(offset, Len(w4.bytes) - offset, Len(w4.bytes))]

\* The calls on the archive file, and the data the archive appends to it
\* between two headers.  readable: the header the file held, by Header::read,
\* before the call.
header_write(header, kill) ==
    /\ LET r == Header_write(header_file.bytes, header, kill)
       IN header_file' = [bytes |-> r.bytes,
                          call |-> [op |-> "write", header |-> header, ret |-> r.ret,
                                    address |-> r.address,
                                    readable |-> Header_read(header_file.bytes)]]
    /\ UNCHANGED <<repo_vars, memory, directory, archive>>

header_read ==
    /\ LET r == Header_read(header_file.bytes)
       IN header_file' = [header_file EXCEPT
                            !.call = [op |-> "read", header |-> r.header,
                                      ret |-> IF r.ok THEN "Ok" ELSE "Err",
                                      address |-> r.address, readable |-> r]]
    /\ UNCHANGED <<repo_vars, memory, directory, archive>>

append_data(cell) ==
    /\ Len(header_file.bytes) < MaxArchiveLen
    /\ header_file' = [bytes |-> Append(header_file.bytes, cell),
                       call |-> [op |-> "append", header |-> 0, ret |-> "Ok",
                                 address |-> NoAddress,
                                 readable |-> Header_read(header_file.bytes)]]
    /\ UNCHANGED <<repo_vars, memory, directory, archive>>

\* The state after the repository is created in an empty store, with n
\* operations to come.
Created(n) ==
    /\ config \in Configs
    /\ metadata = [header_id |-> HeaderUuid(1), salt |-> 0]
    /\ chunks = EmptyFn
    /\ packs = EmptyFn
    /\ managed = NewHeader.managed
    /\ handle_table = IdTable_new
    /\ savepoints = EmptyFn
    /\ instance_id = "A"
    /\ store = [b \in {METADATA_BLOCK_ID, VERSION_BLOCK_ID, HeaderUuid(1)} |->
                  IF b = METADATA_BLOCK_ID THEN MetadataBlock([header_id |-> HeaderUuid(1), salt |-> 0])
                  ELSE IF b = VERSION_BLOCK_ID THEN VersionBlock
                  ELSE HeaderBlock(encode_data(to_vec(NewHeader)))]
    /\ handles = {}
    /\ serialized = <<>>
    /\ uuids = 0
    /\ header_ids = 1
    /\ created = 0
    /\ steps = n
    /\ saved = EmptyFn
    /\ last = [op |-> "create", res |-> "ok"]
    /\ committed = NewHeader
    /\ memory = MemoryConfig_new
    /\ directory = DirectoryStore_create
    /\ archive = Archive_create
    /\ header_file = [bytes |-> HeaderFile_create,
                      call |-> [op |-> "create", header |-> 1, ret |-> "Ok",
                                address |-> NoAddress,
                                readable |-> Header_read(HeaderFile_create)]]

Init == Created(MaxSteps)

ShortInit == Created(MaxShortSteps)

\* The process is running: no operation has panicked.
Running == last.res \notin {"panic", "killed", "corrupt"}

\* One more operation of a running process.
Step ==
    /\ Running
    /\ steps > 0
    /\ steps' = steps - 1
    /\ UNCHANGED <<memory, directory, archive, header_file>>

\* The savepoints have seen an operation other than the creation, removal
\* or writing of an object.
Impure == [sp \in DOMAIN saved |-> [saved[sp] EXCEPT !.pure = FALSE]]

\* An operation panicked: the process is gone, the store is as it was.
Panic(op) ==
    /\ last' = [op |-> op, res |-> "panic"]
    /\ UNCHANGED <<config, metadata, chunks, packs, managed, handle_table,
                   savepoints, instance_id, store, handles, serialized, uuids, header_ids,
                   created, committed, saved>>

(* --------------------------- chunk references ------------------------- *)

\* The loop of remove_unmanaged over handle.chunks: drop id from the
\* references of each chunk, and the chunk with its last reference.  A chunk
\* which is not in the map is a panic (the expect).
RECURSIVE drop_references(_, _, _)
drop_references(chs, cs, id) ==
    IF cs = <<>> THEN [ok |-> TRUE, chunks |-> chs]
    ELSE IF Head(cs) \notin DOMAIN chs THEN [ok |-> FALSE, chunks |-> chs]
    ELSE LET refs == chs[Head(cs)].references \ {id}
             next == IF refs = {} THEN Without(chs, Head(cs))
                     ELSE [chs EXCEPT ![Head(cs)].references = refs]
         IN drop_references(next, Tail(cs), id)

\* The loop of unmanaged_object_mut: replace old by new in the references of
\* each chunk of the handle.
replace_references(chs, cs, old, new) ==
    IF \E i \in DOMAIN cs : cs[i] \notin DOMAIN chs
    THEN [ok |-> FALSE, chunks |-> chs]
    ELSE [ok |-> TRUE,
          chunks |-> [c \in DOMAIN chs |->
                        IF c \in Range(cs)
                        THEN [chs[c] EXCEPT !.references = (@ \ {old}) \cup {new}]
                        ELSE chs[c]]]

\* A loop which adds no reference.
add_references_nowhere(chs, cs, id) ==
    IF \E i \in DOMAIN cs : cs[i] \notin DOMAIN chs
    THEN [ok |-> FALSE, chunks |-> chs]
    ELSE [ok |-> TRUE, chunks |-> chs]

\* The loop of copy_unmanaged: add id to the references of each chunk.
add_references(chs, cs, id) ==
    IF \E i \in DOMAIN cs : cs[i] \notin DOMAIN chs
    THEN [ok |-> FALSE, chunks |-> chs]
    ELSE [ok |-> TRUE,
          chunks |-> [c \in DOMAIN chs |->
                        IF c \in Range(cs)
                        THEN [chs[c] EXCEPT !.references = @ \cup {id}]
                        ELSE chs[c]]]

contains_unmanaged(handle) ==
    /\ handle.repo_id = REPO_ID
    /\ handle.instance_id = instance_id
    /\ IdTable_contains(handle_table, handle.handle_id)

\* remove_unmanaged on the chunk map chs and handle table tbl: the result and
\* the two afterwards.
remove_unmanaged_in(chs, tbl, handle) ==
    IF ~ (/\ handle.repo_id = REPO_ID
          /\ handle.instance_id = instance_id
          /\ IdTable_contains(tbl, handle.handle_id))
    THEN [res |-> "false", chunks |-> chs, handle_table |-> tbl]
    ELSE LET d == drop_references(chs, handle.chunks, handle.handle_id)
         IN IF ~ d.ok THEN [res |-> "panic", chunks |-> chs, handle_table |-> tbl]
            ELSE [res |-> "true", chunks |-> d.chunks,
                  handle_table |-> IdTable_recycle(tbl, handle.handle_id)]

(* ----------------------------- chunk store ---------------------------- *)

\* The distinct elements of a sequence, in the order of their first occurrence.
Distinct(s) ==
    LET F[i \in 0 .. Len(s)] ==
            IF i = 0 THEN <<>>
            ELSE IF s[i] \in Range(F[i - 1]) THEN F[i - 1]
            ELSE Append(F[i - 1], s[i])
    IN F[Len(s)]

IndexOf(s, e) == CHOOSE i \in DOMAIN s : s[i] = e

\* Object::write and flush of the chunks new into the object with handle ID
\* id which listed the chunks old.  A chunk which is in the chunk map gains
\* the reference id and nothing is written; a chunk which is not gets a
\* fresh block ID and is written to the store (with Fixed packing, the new
\* chunks of this write go into one new pack).  A chunk the object no longer
\* lists loses the reference id, and is dropped with its last reference.
write_object(chs, pks, st, n, id, old, new) ==
    LET fresh  == SelectSeq(Distinct(new), LAMBDA c : c \notin DOMAIN chs)
        k      == Len(fresh)
        block(c) == Uuid(n + IndexOf(fresh, c))
        pack   == Uuid(n + k + 1)
        added  == [c \in DOMAIN chs \cup Range(new) |->
                     IF c \in DOMAIN chs
                     THEN IF c \in Range(new)
                          THEN [chs[c] EXCEPT !.references = @ \cup {id}]
                          ELSE chs[c]
                     ELSE [block_id |-> block(c), references |-> {id}]]
        gone   == {c \in (Range(old) \ Range(new)) \cap DOMAIN added :
                     added[c].references \ {id} = {}}
        kept   == [c \in DOMAIN added \ gone |->
                     IF c \in Range(old) \ Range(new)
                     THEN [added[c] EXCEPT !.references = @ \ {id}]
                     ELSE added[c]]
        blocks == {block(fresh[i]) : i \in DOMAIN fresh}
    IN  IF k = 0
        THEN [chunks |-> kept, packs |-> pks, store |-> st, uuids |-> n]
        ELSE IF config.packing = "None"
        THEN [chunks |-> kept, packs |-> pks,
              store |-> [b \in DOMAIN st \cup blocks |->
                           IF b \in blocks
                           THEN DataBlock([x \in {b} |-> fresh[b - Uuid(n)]])
                           ELSE st[b]],
              uuids |-> n + k]
        ELSE [chunks |-> kept,
              packs |-> [b \in DOMAIN pks \cup blocks |->
                           IF b \in blocks THEN pack ELSE pks[b]],
              store |-> With(st, pack,
                             DataBlock([b \in blocks |-> fresh[b - Uuid(n)]])),
              uuids |-> n + k + 1]

\* StoreReader::read_chunk: the data of the chunk with the given hash.
read_chunk(chs, pks, st, hash) ==
    IF hash \notin DOMAIN chs THEN [ok |-> FALSE, data |-> 0]
    ELSE LET b == chs[hash].block_id
             at == IF config.packing = "None" THEN b
                   ELSE IF b \in DOMAIN pks THEN pks[b] ELSE b
         IN IF at \in DOMAIN st /\ st[at].kind = "data" /\ b \in DOMAIN st[at].body
            THEN [ok |-> TRUE, data |-> st[at].body[b]]
            ELSE [ok |-> FALSE, data |-> 0]

\* Reading the object of a handle returns the bytes it lists.
reads_back(chs, pks, st, handle) ==
    \A i \in DOMAIN handle.chunks :
        LET r == read_chunk(chs, pks, st, handle.chunks[i])
        IN r.ok /\ r.data = handle.chunks[i]

(* -------------------------- unmanaged objects ------------------------- *)

\* What the caller may hold after an operation turned its handle old into now.
Kept(old, now) ==
    {hs \in {(handles \ {old}) \cup now, handles \cup now} : Cardinality(hs) <= MaxHeld}

add_unmanaged ==
    /\ Step
    /\ \E id \in IdTable_next_ids(handle_table) :
        /\ id <= MaxHandleId
        /\ handle_table' = IdTable_next(handle_table, id)
        /\ handles' = handles \cup {ObjectHandle(instance_id, id, <<>>)}
        /\ Cardinality(handles') <= MaxHeld
    /\ last' = [op |-> "add_unmanaged", res |-> "ok"]
    /\ UNCHANGED <<config, metadata, chunks, packs, managed, savepoints,
                   instance_id, store, serialized, uuids, header_ids,
                   created, committed, saved>>

remove_unmanaged(handle) ==
    /\ Step
    /\ LET r == remove_unmanaged_in(chunks, handle_table, handle)
       IN IF r.res = "panic" THEN Panic("remove_unmanaged")
          ELSE /\ chunks' = r.chunks
               /\ handle_table' = r.handle_table
               /\ handles' \in Kept(handle, {})
               /\ last' = [op |-> "remove_unmanaged", res |-> r.res]
               /\ UNCHANGED <<config, metadata, packs, managed, savepoints,
                              instance_id, store, serialized, uuids, header_ids,
                   created, committed, saved>>

\* unmanaged_object_mut on the chunk map chs and handle table tbl, where
\* next() returns id: the result, the two and the handle afterwards.  The
\* new ID is drawn before the old one is recycled.
unmanaged_object_mut_in(chs, tbl, handle, id) ==
    LET r == replace_references(chs, handle.chunks, handle.handle_id, id)
    IN IF ~ (/\ handle.repo_id = REPO_ID
             /\ handle.instance_id = instance_id
             /\ IdTable_contains(tbl, handle.handle_id))
       THEN [res |-> "none", chunks |-> chs, handle_table |-> tbl, handle |-> handle]
       ELSE IF ~ r.ok
       THEN [res |-> "panic", chunks |-> chs, handle_table |-> tbl, handle |-> handle]
       ELSE [res |-> "some", chunks |-> r.chunks,
             handle_table |-> IdTable_recycle(IdTable_next(tbl, id), handle.handle_id),
             handle |-> [handle EXCEPT !.handle_id = id]]

\* unmanaged_object_mut(handle), then write and flush of the bytes new.
unmanaged_object_mut(handle, new) ==
    /\ Step
    /\ IF ~ contains_unmanaged(handle)
       THEN /\ last' = [op |-> "unmanaged_object_mut", res |-> "none"]
            /\ UNCHANGED <<config, metadata, chunks, packs, managed, handle_table,
                           savepoints, instance_id, store, handles, serialized,
                           uuids, header_ids, created, committed, saved>>
       ELSE \E id \in IdTable_next_ids(handle_table) :
            /\ id <= MaxHandleId
            /\ LET r == unmanaged_object_mut_in(chunks, handle_table, handle, id)
                   w == write_object(r.chunks, packs, store, uuids, id,
                                     handle.chunks, new)
               IN IF r.res = "panic" THEN Panic("unmanaged_object_mut")
                  ELSE /\ w.uuids <= MaxUuid
                       /\ handle_table' = r.handle_table
                       /\ chunks' = w.chunks
                       /\ packs' = w.packs
                       /\ store' = w.store
                       /\ uuids' = w.uuids
                       /\ handles' \in Kept(handle, {ObjectHandle(instance_id, r.handle.handle_id, new)})
                       /\ last' = [op |-> "unmanaged_object_mut", res |-> "ok"]
                       /\ UNCHANGED <<config, metadata, managed, savepoints,
                                      instance_id, serialized, header_ids,
                                      created, committed, saved>>

copy_unmanaged(source) ==
    /\ Step
    /\ \E id \in IdTable_next_ids(handle_table) :
        /\ id <= MaxHandleId
        /\ LET r == add_references(chunks, source.chunks, id)
           IN IF ~ r.ok THEN Panic("copy_unmanaged")
              ELSE /\ handle_table' = IdTable_next(handle_table, id)
                   /\ chunks' = r.chunks
                   /\ handles' \in Kept(source, {ObjectHandle(instance_id, id, source.chunks)})
                   /\ last' = [op |-> "copy_unmanaged", res |-> "ok"]
                   /\ saved' = Impure
                   /\ UNCHANGED <<config, metadata, packs, managed, savepoints,
                                  instance_id, store, serialized, uuids, header_ids,
                                  created, committed>>

(* --------------------------- managed objects -------------------------- *)

\* managed_map() and managed_map_mut() unwrap the current instance's map.
has_managed_map == instance_id \in DOMAIN managed

contains_managed(id) == id \in DOMAIN managed[instance_id]

add_managed(id) ==
    /\ Step
    /\ IF ~ has_managed_map THEN Panic("add_managed")
       ELSE \E hid \in IdTable_next_ids(handle_table) :
            /\ hid <= MaxHandleId
            /\ LET tbl == IdTable_next(handle_table, hid)
                   r   == IF contains_managed(id)
                          THEN remove_unmanaged_in(chunks, tbl, managed[instance_id][id])
                          ELSE [res |-> "none", chunks |-> chunks, handle_table |-> tbl]
               IN IF r.res = "panic" THEN Panic("add_managed")
                  ELSE /\ managed' = [managed EXCEPT ![instance_id] =
                                        With(@, id, ObjectHandle(instance_id, hid, <<>>))]
                       /\ chunks' = r.chunks
                       /\ handle_table' = r.handle_table
                       /\ last' = [op |-> "add_managed", res |-> "ok"]
                       /\ UNCHANGED <<config, metadata, packs, savepoints, instance_id,
                                      store, handles, serialized, uuids,
                                   header_ids, created, committed, saved>>

remove_managed(id) ==
    /\ Step
    /\ IF ~ has_managed_map THEN Panic("remove_managed")
       ELSE IF ~ contains_managed(id)
       THEN /\ last' = [op |-> "remove_managed", res |-> "false"]
            /\ UNCHANGED <<config, metadata, chunks, packs, managed, handle_table,
                           savepoints, instance_id, store, handles, serialized,
                           uuids, header_ids, created, committed, saved>>
       ELSE LET r == remove_unmanaged_in(chunks, handle_table, managed[instance_id][id])
            IN IF r.res = "panic" THEN Panic("remove_managed")
               ELSE /\ managed' = [managed EXCEPT ![instance_id] = Without(@, id)]
                    /\ chunks' = r.chunks
                    /\ handle_table' = r.handle_table
                    /\ last' = [op |-> "remove_managed", res |-> "true"]
                    /\ UNCHANGED <<config, metadata, packs, savepoints, instance_id,
                                   store, handles, serialized, uuids,
                                   header_ids, created, committed, saved>>

\* managed_object_mut(id), then write and flush of the bytes new.
managed_object_mut(id, new) ==
    /\ Step
    /\ IF ~ has_managed_map \/ ~ contains_managed(id) THEN Panic("managed_object_mut")
       ELSE LET handle == managed[instance_id][id]
                w == write_object(chunks, packs, store, uuids, handle.handle_id,
                                  handle.chunks, new)
            IN /\ w.uuids <= MaxUuid
               /\ managed' = [managed EXCEPT ![instance_id][id] =
                                [@ EXCEPT !.chunks = new, !.size = Len(new)]]
               /\ chunks' = w.chunks
               /\ packs' = w.packs
               /\ store' = w.store
               /\ uuids' = w.uuids
               /\ last' = [op |-> "managed_object_mut", res |-> "ok"]
               /\ UNCHANGED <<config, metadata, handle_table, savepoints, instance_id,
                              handles, serialized, header_ids, created, committed, saved>>

copy_managed(source, dest) ==
    /\ Step
    /\ IF ~ has_managed_map THEN Panic("copy_managed")
       ELSE IF ~ contains_managed(source)
       THEN /\ last' = [op |-> "copy_managed", res |-> "false"]
            /\ UNCHANGED <<config, metadata, chunks, packs, managed, handle_table,
                           savepoints, instance_id, store, handles, serialized,
                           uuids, header_ids, created, committed, saved>>
       ELSE /\ managed' = [managed EXCEPT ![instance_id] =
                             With(@, dest, managed[instance_id][source])]
            /\ last' = [op |-> "copy_managed", res |-> "true"]
            /\ saved' = Impure
            /\ UNCHANGED <<config, metadata, chunks, packs, handle_table, savepoints,
                           instance_id, store, handles, serialized, uuids, header_ids,
                           created, committed>>

\* A set_instance which gives a new instance the objects of the current one.
set_instance_shared(id) ==
    /\ Step
    /\ managed' = IF id \in DOMAIN managed THEN managed
                  ELSE With(managed, id, managed[instance_id])
    /\ instance_id' = id
    /\ last' = [op |-> "set_instance", res |-> "ok"]
    /\ saved' = Impure
    /\ UNCHANGED <<config, metadata, chunks, packs, handle_table, savepoints, store,
                   handles, serialized, uuids, header_ids, created, committed>>

set_instance(id) ==
    /\ Step
    /\ managed' = IF id \in DOMAIN managed THEN managed ELSE With(managed, id, EmptyFn)
    /\ instance_id' = id
    /\ last' = [op |-> "set_instance", res |-> "ok"]
    /\ saved' = Impure
    /\ UNCHANGED <<config, metadata, chunks, packs, handle_table, savepoints, store,
                   handles, serialized, uuids, header_ids, created, committed>>

(* ------------------------- commit and rollback ------------------------ *)

\* restore_header which forgets the handle table.
restore_header_without_table(header) ==
    /\ chunks' = header.chunks
    /\ packs' = header.packs
    /\ managed' = header.managed
    /\ UNCHANGED handle_table

\* restore_header: install the four parts of a header as the in-memory state.
restore_header(header) ==
    /\ chunks' = header.chunks
    /\ packs' = header.packs
    /\ managed' = header.managed
    /\ handle_table' = header.handle_table

\* The loop of commit over the savepoints' handles, in some order: each is
\* given to remove_unmanaged.
RECURSIVE remove_savepoints(_, _, _)
remove_savepoints(chs, tbl, sps) ==
    IF sps = {} THEN {[res |-> "true", chunks |-> chs, handle_table |-> tbl]}
    ELSE UNION {LET r == remove_unmanaged_in(chs, tbl, savepoints[sp])
                IN IF r.res = "panic" THEN {r}
                   ELSE remove_savepoints(r.chunks, r.handle_table, sps \ {sp})
                : sp \in sps}

\* write_serialized_header which writes the header block and never the
\* metadata block.
write_serialized_header_unpublished(st, md, n, serialized_header, fail) ==
    LET header_id == HeaderUuid(n + 1)
        written   == With(st, header_id, HeaderBlock(encode_data(serialized_header)))
        new_md    == [md EXCEPT !.header_id = header_id]
    IN  [header_ids |-> n + 1,
         metadata |-> IF fail = "header" THEN md ELSE new_md,
         store |-> IF fail = "header" THEN st ELSE written]

\* write_serialized_header on the store st, the metadata md and n UUIDs
\* drawn: encode the serialized header, write it to a new block, point the
\* metadata at it and write the metadata block.  fail names the write_block
\* call which returns Err, if any; a failed write_block writes nothing.
write_serialized_header(st, md, n, serialized_header, fail) ==
    LET header_id == HeaderUuid(n + 1)
        written   == With(st, header_id, HeaderBlock(encode_data(serialized_header)))
        new_md    == [md EXCEPT !.header_id = header_id]
    IN  [header_ids |-> n + 1,
         metadata |-> IF fail = "header" THEN md ELSE new_md,
         store |-> IF fail = "header" THEN st
                   ELSE IF fail = "metadata" THEN written
                   ELSE With(written, METADATA_BLOCK_ID, MetadataBlock(new_md))]

\* A commit which does not restore the backup header when it fails.
commit_without_backup(fail) ==
    /\ Step
    /\ header_ids < MaxHeaders
    /\ LET backup_header == clone_header
       IN \E r \in remove_savepoints(chunks, handle_table, DOMAIN savepoints) :
            IF r.res = "panic" THEN Panic("commit")
            ELSE LET header == Header(r.chunks, packs, managed, r.handle_table)
                     w == write_serialized_header(store, metadata, header_ids,
                                                  to_vec(header), fail)
                 IN /\ store' = w.store
                    /\ metadata' = w.metadata
                    /\ header_ids' = w.header_ids
                    /\ IF fail # "none"
                       THEN /\ restore_header(header)
                            /\ last' = [op |-> "commit", res |-> "err"]
                            /\ saved' = Impure
                            /\ UNCHANGED <<savepoints, committed>>
                       ELSE /\ restore_header(header)
                            /\ savepoints' = EmptyFn
                            /\ saved' = EmptyFn
                            /\ committed' = header
                            /\ last' = [op |-> "commit", res |-> "ok"]
                    /\ UNCHANGED <<config, instance_id, handles, serialized, uuids,
                                   created>>

commit(fail) ==
    /\ Step
    /\ header_ids < MaxHeaders
    /\ LET backup_header == clone_header
       IN \E r \in remove_savepoints(chunks, handle_table, DOMAIN savepoints) :
            IF r.res = "panic" THEN Panic("commit")
            ELSE LET header == Header(r.chunks, packs, managed, r.handle_table)
                     w == write_serialized_header(store, metadata, header_ids,
                                                  to_vec(header), fail)
                 IN /\ store' = w.store
                    /\ metadata' = w.metadata
                    /\ header_ids' = w.header_ids
                    /\ IF fail # "none"
                       THEN /\ restore_header(backup_header)
                            /\ last' = [op |-> "commit", res |-> "err"]
                            /\ saved' = Impure
                            /\ UNCHANGED <<savepoints, committed>>
                       ELSE /\ restore_header(header)
                            /\ savepoints' = EmptyFn
                            /\ saved' = EmptyFn
                            /\ committed' = header
                            /\ last' = [op |-> "commit", res |-> "ok"]
                    /\ UNCHANGED <<config, instance_id, handles, serialized, uuids,
                                   created>>

\* The process is killed during commit: before the header block is written,
\* between the two writes, or after the metadata block is written.
commit_killed(point) ==
    /\ Step
    /\ header_ids < MaxHeaders
    /\ \E r \in remove_savepoints(chunks, handle_table, DOMAIN savepoints) :
         /\ r.res # "panic"
         /\ chunks' = r.chunks
         /\ handle_table' = r.handle_table
         /\ IF point = "before"
            THEN UNCHANGED <<store, metadata, header_ids>>
            ELSE LET w == write_serialized_header(store, metadata, header_ids,
                              to_vec(Header(r.chunks, packs, managed, r.handle_table)),
                              IF point = "between" THEN "metadata" ELSE "none")
                 IN /\ store' = w.store
                    /\ metadata' = w.metadata
                    /\ header_ids' = w.header_ids
    /\ last' = [op |-> "commit", res |-> "killed"]
    /\ saved' = Impure
    /\ UNCHANGED <<config, packs, managed, savepoints, instance_id, handles,
                   serialized, uuids, created, committed>>

\* What rollback returns, and the header it installs.  fail: read_block
\* returns Err.
rollback_result(fail) ==
    LET r == read_header(store, metadata.header_id)
    IN IF fail THEN [res |-> "store_err", header |-> NoHeader]
       ELSE IF ~ r.ok THEN [res |-> "err", header |-> NoHeader]
       ELSE [res |-> "ok", header |-> r.hdr]

rollback(fail) ==
    /\ Step
    /\ LET r == rollback_result(fail)
       IN /\ IF r.res = "ok" THEN restore_header(r.header)
             ELSE UNCHANGED <<chunks, packs, managed, handle_table>>
          /\ last' = [op |-> "rollback", res |-> r.res]
    /\ saved' = Impure
    /\ UNCHANGED <<config, metadata, savepoints, instance_id, store, handles,
                   serialized, uuids, header_ids, created, committed>>

\* The repository is dropped (or its process is gone) and the store is opened
\* again, as instance "A".
open ==
    /\ steps > 0
    /\ steps' = steps - 1
    /\ UNCHANGED <<memory, directory, archive, header_file>>
    /\ LET r == open_repo(store)
       IN IF ~ r.ok
       THEN /\ last' = [op |-> "open", res |-> "corrupt"]
            /\ UNCHANGED <<config, metadata, chunks, packs, managed, handle_table,
                           savepoints, instance_id, store, handles, serialized,
                           uuids, header_ids, created, committed, saved>>
       ELSE /\ metadata' = [header_id |-> store[METADATA_BLOCK_ID].header_id,
                            salt |-> store[METADATA_BLOCK_ID].salt]
            /\ chunks' = r.hdr.chunks
            /\ packs' = r.hdr.packs
            /\ handle_table' = r.hdr.handle_table
            /\ managed' = IF "A" \in DOMAIN r.hdr.managed THEN r.hdr.managed
                          ELSE With(r.hdr.managed, "A", EmptyFn)
            /\ instance_id' = "A"
            /\ savepoints' = EmptyFn
            /\ committed' = r.hdr
            /\ last' = [op |-> "open", res |-> "ok"]
            /\ saved' = EmptyFn
            /\ UNCHANGED <<config, store, handles, serialized, uuids, header_ids,
                           created>>

(* ----------------------------- savepoints ----------------------------- *)

\* The hash of the chunk which holds the serialized header: the hash of
\* equal bytes is equal.
header_hash(ser, header) ==
    Cardinality(DataChunks) +
        (IF \E i \in DOMAIN ser : ser[i] = header
         THEN CHOOSE i \in DOMAIN ser : ser[i] = header
         ELSE Len(ser) + 1)

\* The savepoints whose weak reference the caller can upgrade: the Arc is
\* owned by the savepoint table of the repository that created it.
upgrade(savepoint_id) ==
    savepoint_id \in DOMAIN savepoints \/ savepoint_id = ForeignSavepoint

savepoint ==
    /\ Step
    /\ created < MaxSavepoints
    /\ LET header == clone_header
           hash   == header_hash(serialized, header)
       IN \E id1 \in IdTable_next_ids(handle_table) :
          LET tbl1 == IdTable_next(handle_table, id1)
          IN \E id2 \in IdTable_next_ids(tbl1) :
             LET tbl2 == IdTable_recycle(IdTable_next(tbl1, id2), id1)
                 w    == write_object(chunks, packs, store, uuids, id2, <<>>, <<hash>>)
             IN /\ id1 <= MaxHandleId
                /\ id2 <= MaxHandleId
                /\ w.uuids <= MaxUuid
                /\ handle_table' = tbl2
                /\ chunks' = w.chunks
                /\ packs' = w.packs
                /\ store' = w.store
                /\ uuids' = w.uuids
                /\ serialized' = IF hash - Cardinality(DataChunks) \in DOMAIN serialized
                                 THEN serialized ELSE Append(serialized, header)
                /\ created' = created + 1
                /\ savepoints' = With(savepoints, created + 1,
                                      ObjectHandle(instance_id, id2, <<hash>>))
    /\ saved' = With(Impure, created + 1, [header |-> clone_header, pure |-> TRUE])
    /\ last' = [op |-> "savepoint", res |-> "ok"]
    /\ UNCHANGED <<config, metadata, managed, instance_id, handles, header_ids,
                   committed>>

\* restore which does not look the savepoint up in the savepoint table.
restore_result_unchecked(savepoint_id) ==
    IF ~ upgrade(savepoint_id)
    THEN [res |-> "InvalidSavepoint", header |-> NoHeader]
    ELSE IF savepoint_id \notin DOMAIN savepoints
    THEN [res |-> "ok", header |-> NoHeader]
    ELSE LET r == read_chunk(chunks, packs, store, savepoints[savepoint_id].chunks[1])
         IN IF ~ r.ok THEN [res |-> "err", header |-> NoHeader]
            ELSE [res |-> "ok",
                  header |-> serialized[r.data - Cardinality(DataChunks)]]

\* What restore(savepoint_id) returns, and the header it installs.
restore_result(savepoint_id) ==
    IF ~ upgrade(savepoint_id) \/ savepoint_id \notin DOMAIN savepoints
    THEN [res |-> "InvalidSavepoint", header |-> NoHeader]
    ELSE LET handle == savepoints[savepoint_id]
             r == read_chunk(chunks, packs, store, handle.chunks[1])
         IN IF ~ contains_unmanaged(handle)
            THEN [res |-> "InvalidSavepoint", header |-> NoHeader]
            ELSE IF ~ r.ok THEN [res |-> "err", header |-> NoHeader]
            ELSE [res |-> "ok",
                  header |-> serialized[r.data - Cardinality(DataChunks)]]

restore(savepoint_id) ==
    /\ Step
    /\ LET r == restore_result(savepoint_id)
       IN /\ IF r.res = "ok" THEN restore_header(r.header)
             ELSE UNCHANGED <<chunks, packs, managed, handle_table>>
          /\ last' = [op |-> "restore", res |-> r.res]
    /\ saved' = Impure
    /\ UNCHANGED <<config, metadata, savepoints, instance_id, store, handles,
                   serialized, uuids, header_ids, created, committed>>

clear_repo ==
    /\ Step
    /\ handle_table' = IdTable_new
    /\ chunks' = EmptyFn
    /\ packs' = EmptyFn
    /\ managed' = [i \in DOMAIN managed |-> EmptyFn]
    /\ last' = [op |-> "clear_repo", res |-> "ok"]
    /\ saved' = Impure
    /\ UNCHANGED <<config, metadata, savepoints, instance_id, store, handles,
                   serialized, uuids, header_ids, created, committed>>

(* -------------------------------- clean ------------------------------- *)

\* list_data_blocks: the blocks of the store but the metadata block, the
\* version block and the header block the in-memory metadata names.
list_data_blocks ==
    DOMAIN store \ {METADATA_BLOCK_ID, VERSION_BLOCK_ID, metadata.header_id}

\* The block IDs of the chunks of a chunk map.
block_ids(chs) == {chs[c].block_id : c \in DOMAIN chs}

\* The store without the blocks ids.
remove_blocks(st, ids) == [b \in DOMAIN st \ ids |-> st[b]]

\* A clean which keeps only the blocks of the previous header's chunks.
clean_none_previous_only(previous_header) ==
    LET referenced_blocks == block_ids(previous_header.chunks)
    IN /\ store' = remove_blocks(store, list_data_blocks \ referenced_blocks)
       /\ last' = [op |-> "clean", res |-> "ok"]
       /\ UNCHANGED <<metadata, packs, uuids, header_ids>>

\* clean with packing disabled: remove the unreferenced blocks.
clean_none(previous_header) ==
    LET referenced_blocks == block_ids(chunks) \cup block_ids(previous_header.chunks)
    IN /\ store' = remove_blocks(store, list_data_blocks \ referenced_blocks)
       /\ last' = [op |-> "clean", res |-> "ok"]
       /\ UNCHANGED <<metadata, packs, uuids, header_ids>>

\* What clean with Fixed packing computes before it removes anything: the
\* packs to remove (those holding an unreferenced block and the blocks no pack
\* map knows), the store after the referenced blocks of the dirty packs were
\* written to a new pack, the pruned pack map, and the previous header with
\* the pack map of the live state.
repack(previous_header) ==
    LET referenced_blocks == block_ids(chunks) \cup block_ids(previous_header.chunks)
        contained(pack_id) ==
            {b \in DOMAIN packs : packs[b] = pack_id} \cup
            {b \in DOMAIN previous_header.packs : previous_header.packs[b] = pack_id}
        dirty == {p \in list_data_blocks : contained(p) \ referenced_blocks # {}}
        blocks_to_repack == UNION {contained(p) \cap referenced_blocks : p \in dirty}
        \* StoreWriter::read_block goes through the live pack map.
        readable(b) == /\ b \in DOMAIN packs
                       /\ packs[b] \in DOMAIN store
                       /\ store[packs[b]].kind = "data"
                       /\ b \in DOMAIN store[packs[b]].body
        new_pack == Uuid(uuids + 1)
        new_packs == [b \in DOMAIN packs \cap referenced_blocks |->
                        IF b \in blocks_to_repack THEN new_pack ELSE packs[b]]
    IN [ok |-> \A b \in blocks_to_repack : readable(b),
        packs_to_remove |-> {p \in list_data_blocks : contained(p) = {}} \cup dirty,
        uuids |-> IF blocks_to_repack = {} THEN uuids ELSE uuids + 1,
        repacked |-> IF \E b \in blocks_to_repack : ~ readable(b) THEN store
                     ELSE IF blocks_to_repack = {} THEN store
                     ELSE With(store, new_pack,
                               DataBlock([b \in blocks_to_repack |->
                                            store[packs[b]].body[b]])),
        packs |-> new_packs,
        header |-> [previous_header EXCEPT !.packs = new_packs]]

\* clean with Fixed packing: repack, remove the old packs, prune the pack map
\* and write the previous header with the pack map of the live state.
clean_fixed(previous_header) ==
    LET r == repack(previous_header)
        w == write_serialized_header(remove_blocks(r.repacked, r.packs_to_remove),
                                     metadata, header_ids,
                                     encode_data(to_vec(r.header)), "none")
    IN IF ~ r.ok
       THEN /\ last' = [op |-> "clean", res |-> "err"]
            /\ UNCHANGED <<metadata, packs, store, uuids, header_ids>>
       ELSE /\ r.uuids <= MaxUuid
            /\ header_ids < MaxHeaders
            /\ packs' = r.packs
            /\ store' = w.store
            /\ metadata' = w.metadata
            /\ uuids' = r.uuids
            /\ header_ids' = w.header_ids
            /\ last' = [op |-> "clean", res |-> "ok"]

clean ==
    /\ Step
    /\ LET r == read_header(store, metadata.header_id)
       IN IF ~ r.ok
          THEN /\ last' = [op |-> "clean", res |-> "err"]
               /\ UNCHANGED <<metadata, packs, store, uuids, header_ids>>
          ELSE IF config.packing = "None" THEN clean_none(r.hdr)
          ELSE clean_fixed(r.hdr)
    /\ saved' = Impure
    /\ UNCHANGED <<config, chunks, managed, handle_table, savepoints, instance_id,
                   handles, serialized, created, committed>>

\* The process is killed during a clean with Fixed packing: after the
\* repacking, after some or all of the packs to remove were removed, or
\* between the write of the header block and the write of
\* the metadata block.
clean_killed(point) ==
    /\ Step
    /\ config.packing = "Fixed"
    /\ LET p == read_header(store, metadata.header_id)
           r == repack(p.hdr)
           w == write_serialized_header(remove_blocks(r.repacked, r.packs_to_remove),
                                        metadata, header_ids,
                                        encode_data(to_vec(r.header)), "metadata")
       IN /\ p.ok
          /\ r.ok
          /\ r.uuids <= MaxUuid
          /\ uuids' = r.uuids
          /\ CASE point = "repacking" ->
                    /\ store' = r.repacked
                    /\ UNCHANGED <<packs, header_ids>>
               [] point = "removing" ->
                    /\ \E removed \in SUBSET r.packs_to_remove \ {{}} :
                         store' = remove_blocks(r.repacked, removed)
                    /\ UNCHANGED <<packs, header_ids>>
               [] point = "header" ->
                    /\ header_ids < MaxHeaders
                    /\ store' = w.store
                    /\ packs' = r.packs
                    /\ header_ids' = w.header_ids
    /\ last' = [op |-> "clean", res |-> "killed"]
    /\ saved' = Impure
    /\ UNCHANGED <<config, metadata, chunks, managed, handle_table, savepoints,
                   instance_id, handles, serialized, created, committed>>

(* ------------------------------- verify ------------------------------- *)

\* The bytes of a chunk which was damaged in the store.
Damaged == 0

\* StoreReader::read_chunk as verify matches it: the bytes read, or the
\* error.  fail: the store returns an error from read_block.  A block which
\* is missing is Corrupt; damaged bytes fail the authentication of an encoder
\* with encryption and are returned as they are without one.
read_chunk_result(chs, pks, st, hash, fail) ==
    LET r == read_chunk(chs, pks, st, hash)
    IN IF fail THEN [err |-> "Store", data |-> Damaged]
       ELSE IF ~ r.ok THEN [err |-> "Corrupt", data |-> Damaged]
       ELSE IF config.encoding # "none" /\ r.data = Damaged
       THEN [err |-> "InvalidData", data |-> Damaged]
       ELSE [err |-> "none", data |-> r.data]

IntegrityReport(corrupt_chunks, corrupt_managed) ==
    [corrupt_chunks |-> corrupt_chunks, corrupt_managed |-> corrupt_managed]

\* verify which looks for corrupt objects in the current instance only.
verify_current_instance(chs, pks, mgd, st, fail) ==
    LET read(c) == read_chunk_result(chs, pks, st, c, fail)
        errors  == {read(c).err : c \in DOMAIN chs} \ {"none", "InvalidData"}
        corrupt_chunks ==
            {c \in DOMAIN chs :
                \/ read(c).err = "InvalidData"
                \/ read(c).err = "none" /\ read(c).data # c}
        corrupt_managed ==
            {io \in {<<i, o>> \in (DOMAIN mgd) \X ObjectIds :
                        i = instance_id /\ o \in DOMAIN mgd[i]} :
                Range(mgd[io[1]][io[2]].chunks) \cap corrupt_chunks # {}}
    IN IF errors # {}
       THEN [res |-> "err", error |-> CHOOSE e \in errors : TRUE,
             report |-> IntegrityReport({}, {})]
       ELSE [res |-> "ok", error |-> "none",
             report |-> IntegrityReport(corrupt_chunks, corrupt_managed)]

\* verify over the chunk map chs and the managed maps mgd of all instances:
\* the first loop reads every chunk of the chunk map and returns the first
\* error which is not InvalidData; the second loop is skipped when no chunk
\* is corrupt.
verify_result(chs, pks, mgd, st, fail) ==
    LET read(c) == read_chunk_result(chs, pks, st, c, fail)
        errors  == {read(c).err : c \in DOMAIN chs} \ {"none", "InvalidData"}
        corrupt_chunks ==
            {c \in DOMAIN chs :
                \/ read(c).err = "InvalidData"
                \/ read(c).err = "none" /\ read(c).data # c}
        corrupt_managed ==
            {io \in UNION {{<<i, o>> : o \in DOMAIN mgd[i]} : i \in DOMAIN mgd} :
                Range(mgd[io[1]][io[2]].chunks) \cap corrupt_chunks # {}}
    IN IF errors # {}
       THEN [res |-> "err", error |-> CHOOSE e \in errors : TRUE,
             report |-> IntegrityReport({}, {})]
       ELSE IF corrupt_chunks = {}
       THEN [res |-> "ok", error |-> "none", report |-> IntegrityReport({}, {})]
       ELSE [res |-> "ok", error |-> "none",
             report |-> IntegrityReport(corrupt_chunks, corrupt_managed)]

verify(fail) ==
    /\ Step
    /\ LET r == verify_result(chunks, packs, managed, store, fail)
       IN last' = [op |-> "verify", res |-> r.res, error |-> r.error,
                   report |-> r.report]
    /\ UNCHANGED <<config, metadata, chunks, packs, managed, handle_table,
                   savepoints, instance_id, store, handles, serialized, uuids,
                   header_ids, created, committed, saved>>

\* The environment damages or loses the stored bytes of one chunk of user
\* data: the chunk b inside the block at.
tamper(at, b, how) ==
    /\ Step
    /\ at \in DOMAIN store
    /\ store[at].kind = "data"
    /\ b \in DOMAIN store[at].body
    /\ store[at].body[b] \in DataChunks
    /\ store' = IF how = "damaged"
                THEN [store EXCEPT ![at].body[b] = Damaged]
                ELSE [store EXCEPT ![at].body = Without(@, b)]
    /\ last' = [op |-> "tamper", res |-> "ok"]
    /\ UNCHANGED <<config, metadata, chunks, packs, managed, handle_table,
                   savepoints, instance_id, handles, serialized, uuids,
                   header_ids, created, committed, saved>>

(* --------------------------- change_password -------------------------- *)

\* change_password: a fresh salt, and the master key encrypted under the key
\* derived from the new password and that salt.  The salt stands for both.
change_password ==
    /\ Step
    /\ metadata.salt < MaxSalts
    /\ metadata' = [metadata EXCEPT !.salt = @ + 1]
    /\ last' = [op |-> "change_password", res |-> "ok"]
    /\ saved' = Impure
    /\ UNCHANGED <<config, chunks, packs, managed, handle_table, savepoints,
                   instance_id, store, handles, serialized, uuids, header_ids,
                   created, committed>>

(* ---------------------------- specification --------------------------- *)

Next ==
    \/ add_unmanaged
    \/ \E h \in handles : remove_unmanaged(h)
    \/ \E h \in handles, new \in Contents : unmanaged_object_mut(h, new)
    \/ \E h \in handles : copy_unmanaged(h)
    \/ \E id \in ObjectIds : add_managed(id)
    \/ \E id \in ObjectIds : remove_managed(id)
    \/ \E id \in ObjectIds, new \in Contents : managed_object_mut(id, new)
    \/ \E s, d \in ObjectIds : copy_managed(s, d)
    \/ \E i \in Instances : set_instance(i)
    \/ \E fail \in {"none", "header", "metadata"} : commit(fail)
    \/ \E point \in {"before", "between", "after"} : commit_killed(point)
    \/ \E fail \in BOOLEAN : rollback(fail)
    \/ savepoint
    \/ \E sp \in 1 .. created \cup {ForeignSavepoint} : restore(sp)
    \/ clear_repo
    \/ clean
    \/ \E point \in {"repacking", "removing", "header"} : clean_killed(point)
    \/ open

Spec == Init /\ [][Next]_vars

\* The same repository in shorter runs.
ShortSpec == ShortInit /\ [][Next]_vars

\* The repository of managed objects whose store is damaged and verified.
VerifyInit == Created(MaxVerifySteps)

VerifyNext ==
    \/ \E id \in ObjectIds : add_managed(id)
    \/ \E id \in ObjectIds : remove_managed(id)
    \/ \E id \in ObjectIds, new \in Contents : managed_object_mut(id, new)
    \/ \E s, d \in ObjectIds : copy_managed(s, d)
    \/ \E i \in Instances : set_instance(i)
    \/ clear_repo
    \/ clean
    \/ \E at, b \in DOMAIN store, how \in {"damaged", "lost"} : tamper(at, b, how)
    \/ \E fail \in BOOLEAN : verify(fail)

VerifySpec == VerifyInit /\ [][VerifyNext]_vars

\* A MemoryStore under the calls of the DataStore trait.
MemoryInit ==
    /\ Created(0)
    /\ config = [packing |-> "None", encoding |-> "none"]

MemoryNext ==
    \/ \E key \in BlockKeys, data \in BlockBytes : write_block(key, data)
    \/ \E key \in BlockKeys, buf \in Buffers : read_block(key, buf)
    \/ \E key \in BlockKeys : remove_block(key)
    \/ \E kind \in BlockTypes, list \in {<<>>, <<2>>} : list_blocks(kind, list)

MemorySpec == MemoryInit /\ [][MemoryNext]_vars

\* A DirectoryStore under the calls of the DataStore trait.
DirectoryInit == MemoryInit

DirectoryNext ==
    \/ \E id \in BlockIds, data \in BlockBytes,
          fail \in {"none", "create", "write_all", "rename", "remove_dir_all"} :
          directory_write_block(id, data, fail)
    \/ \E id \in BlockIds, fail \in BOOLEAN : directory_read_block(id, fail)
    \/ \E id \in BlockIds : directory_remove_block(id)
    \/ directory_list_blocks

DirectorySpec == DirectoryInit /\ [][DirectoryNext]_vars

\* The two superblock copies of an archive file which is written, damaged
\* and read.
ArchiveInit == MemoryInit

ArchiveNext ==
    \/ \E superblock \in SuperBlocks, fail \in {"none", "primary", "backup"} :
          superblock_write(superblock, fail)
    \/ \E fail \in BOOLEAN : superblock_read(fail)
    \/ \E copy \in {"primary", "backup"},
          how \in {"garbage", "superblock", "size_0", "size_2", "truncated"} :
          corrupt(copy, how)

ArchiveSpec == ArchiveInit /\ [][ArchiveNext]_vars

\* The header of an archive file which is appended to, written and read.
HeaderInit == MemoryInit

HeaderNext ==
    \/ \E header \in ArchiveHeaders, kill \in 0..KILL_NEVER : header_write(header, kill)
    \/ header_read
    \/ \E cell \in 0..2 : append_data(cell)

HeaderSpec == HeaderInit /\ [][HeaderNext]_vars

\* The repository whose password is changed between the other operations.
PasswordNext == Next \/ change_password

PasswordSpec == ShortInit /\ [][PasswordNext]_vars

(* ------------------------------- claims ------------------------------- *)

\* A fresh open of the store reads the header of the last successful commit.
Durable == open_repo(store).ok /\ open_repo(store).hdr = committed

\* rollback, without a store failure, returns Ok and installs the header of
\* the last successful commit.
RollbackRestores == rollback_result(FALSE) = [res |-> "ok", header |-> committed]

\* The repository was just created, opened or committed.
Published ==
    last.op = "create" \/ (last.op \in {"commit", "open"} /\ last.res = "ok")

\* The metadata block and the header block it names, as stored.
PublishedBlocks(st) ==
    [b \in DOMAIN st \cap {METADATA_BLOCK_ID, st[METADATA_BLOCK_ID].header_id} |-> st[b]]

\* The operations on objects.
ObjectOps ==
    {"add_unmanaged", "remove_unmanaged", "unmanaged_object_mut", "copy_unmanaged",
     "add_managed", "remove_managed", "managed_object_mut", "copy_managed"}

\* Reading any managed object of any instance returns the bytes its handle lists.
ManagedReadBack ==
    \A i \in DOMAIN managed : \A o \in DOMAIN managed[i] :
        reads_back(chunks, packs, store, managed[i][o])

\* C1: after commit returns Ok, a fresh open of the store yields the four
\* parts of the in-memory state as they are when commit returns, and every
\* managed object reads back the bytes last written to it.
C1_CommitIsDurable ==
    (last.op = "commit" /\ last.res = "ok") =>
        /\ open_repo(store).ok
        /\ open_repo(store).hdr = clone_header
        /\ ManagedReadBack

\* C2: once the repository is created, opened or committed, a fresh open
\* reads the last successful commit, and every operation on objects,
\* savepoint, restore, rollback, clear_repo and set_instance keeps it so and
\* leaves the stored metadata block and the header block it names as they are.
C2_UncommittedIsNotSaved ==
    /\ [](Published => Durable)
    /\ [][last'.op \in ObjectOps \cup {"savepoint", "restore", "rollback",
                                       "clear_repo", "set_instance"} =>
             /\ PublishedBlocks(store') = PublishedBlocks(store)
             /\ (Durable => Durable')]_vars

\* Uncommitted changes are in memory and a fresh open reads the commit
\* before them.
C2_Witness ==
    /\ committed # NewHeader
    /\ last.op \in ObjectOps \cup {"savepoint", "clear_repo"}
    /\ last.res # "panic"
    /\ clone_header # committed
    /\ Durable

\* C3: once the repository is created, opened or committed, rollback would
\* return Ok and install the last successful commit; every operation on
\* objects, savepoint, restore and clear_repo keeps it so; a rollback which
\* returns Ok leaves the four parts equal to that commit, and one which
\* returns Err leaves them unchanged.
C3_RollbackRestoresCommit ==
    /\ [](Published => RollbackRestores)
    /\ [][last'.op \in ObjectOps \cup {"savepoint", "restore", "clear_repo"} =>
             (RollbackRestores => RollbackRestores')]_vars
    /\ [][(last'.op = "rollback" /\ last'.res = "ok" /\ RollbackRestores) =>
             clone_header' = committed]_vars
    /\ [][(last'.op = "rollback" /\ last'.res # "ok") =>
             clone_header' = clone_header]_vars

\* A rollback returned Ok after a savepoint was created on top of a commit.
C3_Witness ==
    /\ last.op = "rollback"
    /\ last.res = "ok"
    /\ savepoints # EmptyFn
    /\ committed # NewHeader
    /\ clone_header = committed

\* C4: when commit returns Err, the four parts of the in-memory state are as
\* before the call and a fresh open reads the last successful commit.
C4_FailedCommitChangesNothing ==
    [][(last'.op = "commit" /\ last'.res = "err") =>
         /\ clone_header' = clone_header
         /\ Durable']_vars

\* C5: a commit which returns Err leaves the header block named by
\* metadata.header_id holding the last successful commit, so that rollback
\* restores that commit.
C5_HeaderIdNamesCommit ==
    [][(last'.op = "commit" /\ last'.res = "err" /\ RollbackRestores) =>
         RollbackRestores']_vars

\* C6: when the process is killed during commit, a fresh open reads the
\* previously committed state or the state being committed, and the header
\* block the stored metadata block names exists.
C6_KilledCommitIsAtomic ==
    (last.op = "commit" /\ last.res = "killed") =>
        /\ open_repo(store).ok
        /\ open_repo(store).hdr \in {committed, clone_header}

\* C7: a savepoint followed only by creations, removals and writes of
\* objects can be restored: restore returns Ok and installs the four parts
\* as they were when the savepoint was created.
C7_SavepointFidelity ==
    \A sp \in DOMAIN saved :
        saved[sp].pure =>
            restore_result(sp) = [res |-> "ok", header |-> saved[sp].header]

\* C8: a commit which returns Ok empties the savepoint table and removes the
\* storage object of every savepoint: its handle ID leaves the handle table,
\* the chunks only it references leave the chunk map, and restore of the
\* savepoint returns InvalidSavepoint.
C8_CommitRemovesSavepoints ==
    [][(last'.op = "commit" /\ last'.res = "ok") =>
         /\ savepoints' = EmptyFn
         /\ \A sp \in DOMAIN savepoints :
              /\ ~ IdTable_contains(handle_table', savepoints[sp].handle_id)
              /\ \A c \in Range(savepoints[sp].chunks) \cap DOMAIN chunks :
                    chunks[c].references = {savepoints[sp].handle_id} =>
                        c \notin DOMAIN chunks'
              /\ restore_result(sp)'.res = "InvalidSavepoint"]_vars

\* C9: restore returns InvalidSavepoint for a savepoint whose reference
\* cannot be upgraded or which is no key of the savepoint table, and a
\* restore which returns Err leaves the four parts and the savepoint table
\* unchanged.
C9_RestoreRejectsInvalid ==
    /\ [](\A sp \in (1 .. created) \cup {ForeignSavepoint} :
            (~ upgrade(sp) \/ sp \notin DOMAIN savepoints) =>
                restore_result(sp).res = "InvalidSavepoint")
    /\ [][(last'.op = "restore" /\ last'.res # "ok") =>
             /\ clone_header' = clone_header
             /\ savepoints' = savepoints]_vars

\* A restore returned InvalidSavepoint in a repository with uncommitted changes.
C9_Witness ==
    /\ last.op = "restore"
    /\ last.res = "InvalidSavepoint"
    /\ clone_header # committed

\* C10: after clean returns Ok, rollback returns Ok and installs the last
\* committed state, and every chunk of that state can be read from the store.
C10_CleanPreservesRollback ==
    (last.op = "clean" /\ last.res = "ok") =>
        /\ RollbackRestores
        /\ \A c \in DOMAIN committed.chunks :
              read_chunk(committed.chunks, committed.packs, store, c).ok

\* The chunks of the chunk map chs which can be read from the store st.
Readable(chs, pks, st) == {c \in DOMAIN chs : read_chunk(chs, pks, st, c).ok}

\* C11: when clean returns Ok, every chunk of the live chunk map which could
\* be read before can still be read, and the chunk map, the managed map and
\* the handle table are as they were.
C11_CleanKeepsLiveChunks ==
    [][(last'.op = "clean" /\ last'.res = "ok") =>
         /\ chunks' = chunks
         /\ managed' = managed
         /\ handle_table' = handle_table
         /\ Readable(chunks, packs, store) \subseteq Readable(chunks', packs', store')]_vars

\* A clean without packing returned Ok and removed a block while the live
\* chunk map holds chunks which are not committed, all of them readable.
C11_Witness ==
    /\ config.packing = "None"
    /\ last.op = "clean"
    /\ last.res = "ok"
    /\ DOMAIN chunks \ DOMAIN committed.chunks # {}
    /\ Readable(chunks, packs, store) = DOMAIN chunks
    /\ \E n \in 1 .. uuids : Uuid(n) \notin DOMAIN store

\* C12: with packing disabled, after clean returns Ok the store holds only
\* the metadata block, the version block, the current header block and the
\* blocks of the chunks of the live and of the last committed chunk map.
C12_CleanSweepsUnreferenced ==
    (config.packing = "None" /\ last.op = "clean" /\ last.res = "ok") =>
        DOMAIN store \subseteq
            {METADATA_BLOCK_ID, VERSION_BLOCK_ID, metadata.header_id}
                \cup block_ids(chunks) \cup block_ids(committed.chunks)

\* Every chunk of the header a fresh open of the store st reads can be read
\* through the pack map of that header.
StoredReadable(st) ==
    LET o == open_repo(st)
    IN /\ o.ok
       /\ Readable(o.hdr.chunks, o.hdr.packs, st) = DOMAIN o.hdr.chunks

\* C13: with Fixed packing, when clean is interrupted a fresh open can still
\* read every chunk of the last committed state which it could read before:
\* every block of the stored header's chunk map is located by the stored
\* header's pack map inside a pack which exists in the store.  Stated for
\* the cleans which start with the header ID of the stored metadata block.
C13_KilledCleanKeepsCommit ==
    [][(/\ last'.op = "clean"
        /\ last'.res = "killed"
        /\ metadata.header_id = store[METADATA_BLOCK_ID].header_id
        /\ StoredReadable(store)) =>
         StoredReadable(store')]_vars

\* C14: unmanaged_object_mut on a contained handle gives the handle a newly
\* allocated ID which differs from the old one, removes the old ID from the
\* handle table and replaces the old ID by the new one in the references of
\* every chunk of the handle; a clone of the handle taken before the call
\* is then rejected by contains_unmanaged and unmanaged_object, and
\* remove_unmanaged of it returns false and changes nothing.
C14_CopyOnWriteRejectsClone ==
    \A h \in handles : \A id \in IdTable_next_ids(handle_table) :
        contains_unmanaged(h) =>
            LET r == unmanaged_object_mut_in(chunks, handle_table, h, id)
                d == remove_unmanaged_in(r.chunks, r.handle_table, h)
            IN /\ r.res = "some"
               /\ r.handle.handle_id = id
               /\ id # h.handle_id
               /\ ~ IdTable_contains(handle_table, id)
               /\ IdTable_contains(r.handle_table, id)
               /\ ~ IdTable_contains(r.handle_table, h.handle_id)
               /\ DOMAIN r.chunks = DOMAIN chunks
               /\ \A c \in DOMAIN chunks :
                    r.chunks[c].references =
                        IF c \in Range(h.chunks)
                        THEN (chunks[c].references \ {h.handle_id}) \cup {id}
                        ELSE chunks[c].references
               /\ d.res = "false"
               /\ d.chunks = r.chunks
               /\ d.handle_table = r.handle_table

\* The handles the repository stores: the managed objects of every instance
\* and the storage objects of the savepoints.
StoredHandles ==
    UNION {Range(managed[i]) : i \in DOMAIN managed} \cup Range(savepoints)

\* Every chunk a stored handle lists is a key of the chunk map.
ChunksPresent == \A h \in StoredHandles : Range(h.chunks) \subseteq DOMAIN chunks

\* C15: the creation, copy, removal and writing of objects keep every chunk
\* listed by a handle of the managed map or of the savepoint table in the
\* chunk map; removing the source or the destination of a copy_managed
\* leaves the chunks of the other in the chunk map.
C15_StoredChunksPresent ==
    [][(last'.op \in ObjectOps /\ ChunksPresent) => ChunksPresent']_vars

\* The handle IDs of the contained objects which list the chunk c: the
\* managed objects, the storage objects of the savepoints and the contained
\* unmanaged handles.
Referrers(c) ==
    {h.handle_id : h \in {g \in StoredHandles \cup {u \in handles : contains_unmanaged(u)} :
                              c \in Range(g.chunks)}}

\* The references of every chunk are its referrers, and there is one at least.
ReferencesExact ==
    \A c \in DOMAIN chunks :
        /\ chunks[c].references # {}
        /\ chunks[c].references = Referrers(c)

\* C16: the operations on objects keep the references of every chunk of the
\* chunk map non-empty and equal to the set of the handle IDs of the
\* contained objects which list the chunk.
C16_ReferencesExact ==
    [][(last'.op \in ObjectOps /\ ReferencesExact) => ReferencesExact']_vars

\* The places where the repository stores a handle: the managed objects by
\* instance and ID, and the savepoints.
Slots ==
    {<<i, o>> : i \in DOMAIN managed, o \in ObjectIds} \cup
    {<<"savepoint", sp>> : sp \in DOMAIN savepoints}

HasSlot(s) == s[1] = "savepoint" \/ s[2] \in DOMAIN managed[s[1]]

SlotHandle(s) == IF s[1] = "savepoint" THEN savepoints[s[2]] ELSE managed[s[1]][s[2]]

\* The stored handles have pairwise distinct handle IDs, each in the table.
HandleIdsUnique ==
    \A s \in Slots : HasSlot(s) =>
        /\ IdTable_contains(handle_table, SlotHandle(s).handle_id)
        /\ \A t \in Slots : (HasSlot(t) /\ t # s) =>
               SlotHandle(t).handle_id # SlotHandle(s).handle_id

\* C17: the creation, copy and opening for writing of objects and savepoint
\* keep the handle IDs of the handles of the managed map and of the
\* savepoint table pairwise distinct and present in the handle table.
C17_HandleIdsUnique ==
    [][(/\ last'.op \in {"add_unmanaged", "copy_unmanaged", "add_managed",
                          "copy_managed", "managed_object_mut",
                          "unmanaged_object_mut", "savepoint"}
        /\ HandleIdsUnique) => HandleIdsUnique']_vars

\* C18: managed_object_mut of an ID under which the current instance has no
\* managed object returns None and does not panic.
C18_AbsentManagedIsNone ==
    (last.op = "managed_object_mut" /\ has_managed_map) => last.res # "panic"

\* The chunk map chs after id left the references of the chunks cs and the
\* chunks left without a reference were deleted.
Released(chs, cs, id) ==
    LET refs(c) == IF c \in Range(cs) THEN chs[c].references \ {id}
                   ELSE chs[c].references
    IN [c \in {k \in DOMAIN chs : refs(k) # {}} |->
          [chs[c] EXCEPT !.references = refs(c)]]

\* C19: remove_unmanaged of a handle which is not contained returns false
\* and changes nothing; of a contained handle it returns true, removes the
\* handle ID from the references of each chunk of the handle, deletes
\* exactly the chunks left without a reference and recycles the handle ID,
\* so that the handle is no longer contained; it changes no block of the
\* store.
C19_RemoveUnmanaged ==
    /\ [](\A h \in handles :
            LET r == remove_unmanaged_in(chunks, handle_table, h)
            IN IF ~ contains_unmanaged(h)
               THEN /\ r.res = "false"
                    /\ r.chunks = chunks
                    /\ r.handle_table = handle_table
               ELSE /\ r.res = "true"
                    /\ r.chunks = Released(chunks, h.chunks, h.handle_id)
                    /\ ~ IdTable_contains(r.handle_table, h.handle_id))
    /\ [][last'.op = "remove_unmanaged" => store' = store]_vars

\* The managed object the current instance has under id was released: its
\* handle ID left the handle table and the references of its chunks were
\* dropped.
ReleasedManaged(id) ==
    LET old == managed[instance_id][id]
    IN /\ ~ IdTable_contains(handle_table', old.handle_id)
       /\ chunks' = Released(chunks, old.chunks, old.handle_id)

\* C20: add_managed(id) leaves an empty managed object under id whose handle
\* ID is in the handle table, and releases the object it replaces;
\* remove_managed(id) returns false and changes nothing when there is no
\* such object, and else removes the entry, releases its data and returns
\* true.  Neither panics.
C20_AddRemoveManaged ==
    /\ []((last.op \in {"add_managed", "remove_managed"} /\ has_managed_map) =>
            last.res # "panic")
    /\ [][\A id \in ObjectIds :
            /\ (last'.op = "add_managed" /\ last'.res = "ok"
                   /\ id \in DOMAIN managed'[instance_id]
                   /\ (id \in DOMAIN managed[instance_id] =>
                          managed'[instance_id][id] # managed[instance_id][id])) =>
                 /\ managed'[instance_id][id].chunks = <<>>
                 /\ managed'[instance_id][id].size = 0
                 /\ IdTable_contains(handle_table', managed'[instance_id][id].handle_id)
                 /\ (id \in DOMAIN managed[instance_id] => ReleasedManaged(id))
            /\ (last'.op = "remove_managed" /\ last'.res = "true"
                   /\ id \in DOMAIN managed[instance_id]
                   /\ id \notin DOMAIN managed'[instance_id]) =>
                 /\ managed' = [managed EXCEPT ![instance_id] = Without(@, id)]
                 /\ ReleasedManaged(id)
            /\ (last'.op = "remove_managed" /\ last'.res = "false") =>
                 /\ chunks' = chunks
                 /\ managed' = managed
                 /\ handle_table' = handle_table]_vars

\* The objects a step wrote or created: the handles the caller holds anew
\* and the managed objects which changed.
Written ==
    (handles' \ handles) \cup
    UNION {{managed'[i][o] : o \in {k \in DOMAIN managed'[i] \cap DOMAIN managed[i] :
                                       managed'[i][k] # managed[i][k]}} :
           i \in DOMAIN managed' \cap DOMAIN managed}

\* C21: storing content whose chunks are keys of the chunk map already, by
\* copy_unmanaged or by writing it into an object, adds no entry to the chunk
\* map and writes no block; each shared chunk keeps its block and its
\* references gain the handle ID of the new object and nothing else.
C21_Deduplication ==
    [][\A n \in Written :
         (/\ last'.op \in {"copy_unmanaged", "unmanaged_object_mut", "managed_object_mut"}
          /\ last'.res = "ok"
          /\ Range(n.chunks) \subseteq DOMAIN chunks) =>
            /\ store' = store
            /\ DOMAIN chunks' \subseteq DOMAIN chunks
            /\ \A c \in Range(n.chunks) :
                 /\ c \in DOMAIN chunks'
                 /\ chunks'[c].block_id = chunks[c].block_id
                 /\ n.handle_id \in chunks'[c].references
                 /\ chunks'[c].references \ {n.handle_id} \subseteq chunks[c].references
            /\ last'.op = "copy_unmanaged" =>
                 /\ DOMAIN chunks' = DOMAIN chunks
                 /\ \A c \in DOMAIN chunks :
                      chunks'[c].references =
                          IF c \in Range(n.chunks)
                          THEN chunks[c].references \cup {n.handle_id}
                          ELSE chunks[c].references]_vars

\* copy_unmanaged copied an object with data: a chunk has the references of
\* the source and of the copy.
C21_Witness ==
    /\ last.op = "copy_unmanaged"
    /\ last.res = "ok"
    /\ \E h \in handles : \E c \in Range(h.chunks) :
         /\ c \in DOMAIN chunks
         /\ h.handle_id \in chunks[c].references
         /\ Cardinality(chunks[c].references) = 2

\* C28: the managed objects are namespaced by instance.  An operation on
\* objects changes the managed map of the current instance only;
\* set_instance changes no managed map and gives an instance which is new an
\* empty one, so that the objects of an instance are not seen from another
\* and are seen again, unchanged, from their own; a commit stores the
\* managed maps of all instances and a rollback installs the managed maps of
\* all instances of the header it reads.
C28_InstancesAreNamespaces ==
    [][/\ (last'.op \in ObjectOps /\ has_managed_map) =>
            /\ instance_id' = instance_id
            /\ DOMAIN managed' = DOMAIN managed
            /\ \A i \in DOMAIN managed \ {instance_id} : managed'[i] = managed[i]
       /\ last'.op = "set_instance" =>
            /\ DOMAIN managed' = DOMAIN managed \cup {instance_id'}
            /\ \A i \in DOMAIN managed : managed'[i] = managed[i]
            /\ instance_id' \notin DOMAIN managed => managed'[instance_id'] = EmptyFn
            /\ <<chunks', packs', handle_table', store'>> =
                   <<chunks, packs, handle_table, store>>
       /\ (last'.op = "commit" /\ last'.res = "ok") =>
            /\ managed' = managed
            /\ open_repo(store').ok
            /\ open_repo(store').hdr.managed = managed
       /\ (last'.op = "rollback" /\ last'.res = "ok") =>
            managed' = read_header(store, metadata.header_id).hdr.managed]_vars

\* After a visit to instance B, instance A has its object again and B has none.
C28_Witness ==
    /\ last.op = "set_instance"
    /\ instance_id = "A"
    /\ "B" \in DOMAIN managed
    /\ managed["A"] # EmptyFn
    /\ managed["B"] = EmptyFn

\* rollback, without a store failure, returns Ok and every chunk of the
\* header it installs can be read through the pack map of that header.
Recoverable ==
    LET r == rollback_result(FALSE)
    IN /\ r.res = "ok"
       /\ Readable(r.header.chunks, r.header.packs, store) = DOMAIN r.header.chunks

\* C29: clear_repo empties the chunk map, the pack map and the managed map
\* of every instance, whose keys remain, leaves no handle issued before
\* contained and neither writes nor removes a block; the data it cleared
\* can be recovered by a rollback afterwards, also after a clean of the
\* cleared repository.  The recovery is stated for the identity encoder and
\* the header ID of the stored metadata block.
C29_ClearRepoInMemoryOnly ==
    /\ [][last'.op = "clear_repo" =>
             /\ chunks' = EmptyFn
             /\ packs' = EmptyFn
             /\ DOMAIN managed' = DOMAIN managed
             /\ \A i \in DOMAIN managed' : managed'[i] = EmptyFn
             /\ instance_id' = instance_id
             /\ \A h \in handles \cup StoredHandles : ~ contains_unmanaged(h)'
             /\ store' = store]_vars
    /\ [][(/\ (last'.op = "clear_repo" \/ (last'.op = "clean" /\ last.op = "clear_repo"))
            /\ config.encoding = "none"
            /\ metadata.header_id = store[METADATA_BLOCK_ID].header_id
            /\ Recoverable) => Recoverable']_vars

\* The storage object of every savepoint is contained: its handle ID is in
\* the handle table and its chunks are in the chunk map with that ID among
\* their references.
SavepointsContained ==
    \A sp \in DOMAIN savepoints :
        /\ contains_unmanaged(savepoints[sp])
        /\ \A c \in Range(savepoints[sp].chunks) :
             /\ c \in DOMAIN chunks
             /\ savepoints[sp].handle_id \in chunks[c].references

\* What restore returns for each savepoint of the table.
Restores == [sp \in DOMAIN savepoints |-> restore_result(sp)]

\* C30: when commit returns Err the savepoint table is as it was, the storage
\* object of every savepoint which was contained still is, and restore of
\* every savepoint returns what it returned before the commit.
C30_FailedCommitKeepsSavepoints ==
    [][(last'.op = "commit" /\ last'.res = "err") =>
         /\ savepoints' = savepoints
         /\ (SavepointsContained => SavepointsContained')
         /\ Restores' = Restores]_vars

\* A commit returned Err in a repository with a savepoint which restore accepts.
C30_Witness ==
    /\ last.op = "commit"
    /\ last.res = "err"
    /\ \E sp \in DOMAIN savepoints : restore_result(sp).res = "ok"

\* C24: change_password writes no block, and the metadata block of the
\* store keeps the salt and the encrypted master key it has until a commit
\* writes it: no other operation, clean included, changes them.
C24_PasswordWaitsForCommit ==
    [][/\ last'.op = "change_password" => store' = store
       /\ last'.op # "commit" =>
            store'[METADATA_BLOCK_ID].salt = store[METADATA_BLOCK_ID].salt]_vars

\* What reading the chunk c of the live chunk map gives when the store
\* answers: the error of the read, and whether the bytes differ from c.
ReadError(c) == read_chunk_result(chunks, packs, store, c, FALSE).err

Mismatch(c) ==
    /\ ReadError(c) = "none"
    /\ read_chunk_result(chunks, packs, store, c, FALSE).data # c

\* The managed objects of all instances, as (instance, object) pairs.
ManagedObjects ==
    {io \in (DOMAIN managed) \X ObjectIds : io[2] \in DOMAIN managed[io[1]]}

C23_EmptyReportMeansReadable ==
    (/\ last.op = "verify"
     /\ last.res = "ok"
     /\ last.report = IntegrityReport({}, {}))
    => \A io \in ManagedObjects :
          /\ Range(managed[io[1]][io[2]].chunks) \subseteq DOMAIN chunks
          /\ reads_back(chunks, packs, store, managed[io[1]][io[2]])

\* The bytes of the most recent write_block(key) which no remove_block(key)
\* followed, by the history of the calls.
Stored(key) ==
    LET calls == {i \in DOMAIN memory.history : memory.history[i].key = key}
    IN IF calls = {} THEN None
       ELSE LET e == memory.history[CHOOSE i \in calls : \A j \in calls : j <= i]
            IN IF e.op = "write_block" THEN Some(e.data) ELSE None

\* C25: a MemoryStore is a map per block kind.  No call returns Err;
\* read_block(key) appends the bytes of the most recent write_block(key)
\* which no remove_block(key) followed and returns their length, and returns
\* None and leaves the buffer as it is when there is none; list_blocks(kind)
\* appends exactly the IDs of that kind which are stored; remove_block of a
\* key which is not stored changes nothing; a write or removal of one key
\* changes what is read for no other key, same ID of another kind included.
C25_MemoryStoreIsAMap ==
    /\ [](memory.call.ok)
    /\ [](memory.call.op = "read_block" =>
            LET s == Stored(memory.call.key)
            IN IF s # None
               THEN /\ memory.call.ret = Some(Len(s[1]))
                    /\ memory.call.buf = memory.call.given \o s[1]
               ELSE /\ memory.call.ret = None
                    /\ memory.call.buf = memory.call.given)
    /\ [](memory.call.op = "list_blocks" =>
            \E o \in Orders({id \in BlockIds :
                                Stored([kind |-> memory.call.kind, id |-> id]) # None}) :
                memory.call.list = memory.call.given \o o)
    /\ [][(memory'.call.op = "remove_block" /\ Stored(memory'.call.key) = None)
            => memory'.blocks = memory.blocks]_vars
    /\ [][memory'.call.op \in {"write_block", "remove_block"} =>
            \A k \in BlockKeys \ {memory'.call.key} :
                MemoryStore_read_block(memory'.blocks, k, <<>>)
                    = MemoryStore_read_block(memory.blocks, k, <<>>)]_vars

\* A Lock block is read into a buffer which held a byte, while other bytes
\* are stored under the Data key of the same ID.
C25_Witness ==
    /\ memory.call.op = "read_block"
    /\ memory.call.key.kind = "Lock"
    /\ memory.call.buf = <<7, 1, 1>>
    /\ Stored([kind |-> "Data", id |-> memory.call.key.id]) = Some(<<>>)

\* C26: remove_block of a DirectoryStore on an ID which is not stored
\* returns Ok and changes no block, and read_block on an ID which is not
\* stored neither panics nor returns an error.
C26_AbsentBlocks ==
    /\ (directory.call.op = "remove_block" /\ ~ directory.call.stored) =>
            /\ directory.call.ret = "Ok"
            /\ directory.blocks = directory.call.before
    /\ (directory.call.op = "read_block" /\ ~ directory.call.stored) =>
            directory.call.ret \notin {"panic", "Err"}

\* C27: when the file system answers, SuperBlock::read of a file in which
\* one copy was corrupted and the other holds a written superblock returns
\* that superblock and leaves two equal copies; with two valid copies it
\* returns the primary; with two copies which do not deserialize it returns
\* InvalidData and writes nothing.
C27_SuperBlockRepair ==
    [][(archive'.call.op = "read" /\ ~ archive'.call.failed) =>
         /\ \A c, o \in {"primary", "backup"} :
               (/\ archive.corrupted = {c}
                /\ o # c
                /\ archive[o] = write_at(archive[o].payload)
                /\ archive[o].payload \in SuperBlocks)
               => /\ archive'.call.ok
                  /\ archive'.call.superblock = archive[o].payload
                  /\ read_at(archive'.primary) = read_at(archive'.backup)
         /\ (archive.corrupted = {} /\ read_at(archive.primary).ok
                                    /\ read_at(archive.backup).ok)
               => /\ archive'.call.ok
                  /\ archive'.call.superblock = read_at(archive.primary).superblock
         /\ (read_at(archive.primary).kind = "InvalidData"
                /\ read_at(archive.backup).kind = "InvalidData")
               => /\ ~ archive'.call.ok
                  /\ archive'.call.kind = "InvalidData"
                  /\ archive'.primary = archive.primary
                  /\ archive'.backup = archive.backup]_vars

\* C39: the header block which the stored metadata block names is in the
\* store, so the repository can be opened again.
C39_StoredHeaderExists ==
    /\ METADATA_BLOCK_ID \in DOMAIN store
    /\ store[METADATA_BLOCK_ID].header_id \in DOMAIN store
    /\ store[store[METADATA_BLOCK_ID].header_id].kind = "header"

\* C32: the header block which metadata.header_id names holds the
\* serialized header under exactly one application of the encoder, so that
\* decoding it once and deserializing it succeeds, with every encoder.
C32_HeaderEncodedOnce ==
    metadata.header_id \in DOMAIN store =>
        LET b == store[metadata.header_id]
        IN /\ b.kind = "header"
           /\ [layers |-> b.layers, hdr |-> b.hdr] = encode_data(to_vec(b.hdr))
           /\ read_header(store, metadata.header_id).ok

\* C31: with Fixed packing, the header which a clean that returns Ok writes
\* has the chunk map, the managed map and the handle table of the header of
\* the previous commit, and its pack map has an entry for every block of
\* that chunk map, naming a pack which is in the store after the clean.
\* Stated for the cleans which start with the header ID of the stored
\* metadata block.
C31_CleanWritesPreviousHeader ==
    [][(/\ last'.op = "clean"
        /\ last'.res = "ok"
        /\ config.packing = "Fixed"
        /\ metadata.header_id = store[METADATA_BLOCK_ID].header_id) =>
         LET previous == read_header(store, metadata.header_id).hdr
             written  == store'[metadata'.header_id].hdr
         IN /\ written.chunks = previous.chunks
            /\ written.managed = previous.managed
            /\ written.handle_table = previous.handle_table
            /\ \A c \in DOMAIN previous.chunks :
                 LET b == previous.chunks[c].block_id
                 IN /\ b \in DOMAIN written.packs
                    /\ written.packs[b] \in DOMAIN store'
                    /\ store'[written.packs[b]].kind = "data"
                    /\ b \in DOMAIN store'[written.packs[b]].body]_vars

\* C34: a handle which the caller holds and which the repository rejects is
\* not accepted again by contains_unmanaged (and with it unmanaged_object and
\* remove_unmanaged) with the handle ID of another object, after
\* add_unmanaged, add_managed, copy_unmanaged, unmanaged_object_mut or
\* savepoint handed out handle IDs.
C34_StaleStaysRejected ==
    [][last'.op \in {"add_unmanaged", "add_managed", "copy_unmanaged",
                     "unmanaged_object_mut", "savepoint"} =>
         \A h \in handles :
            (~ contains_unmanaged(h) /\ contains_unmanaged(h)') =>
                \A o \in (StoredHandles' \cup handles') \ {h} :
                    o.handle_id # h.handle_id]_vars

\* C35: after a restore which returned Ok, every savepoint which could be
\* restored before it can be restored again, the restored one included, and
\* restoring it yields the same state as before.
C35_RestoreRepeats ==
    [][(last'.op = "restore" /\ last'.res = "ok") =>
         \A sp \in DOMAIN savepoints :
            restore_result(sp).res = "ok" => restore_result(sp)' = restore_result(sp)]_vars

\* C36: clear_repo and a successful rollback leave every savepoint
\* restorable: a savepoint which could be restored before the operation can
\* be restored after it, to the same saved state.
C36_SavepointSurvives ==
    [][(last'.op \in {"clear_repo", "rollback"} /\ last'.res = "ok") =>
         \A sp \in DOMAIN savepoints :
            restore_result(sp).res = "ok" => restore_result(sp)' = restore_result(sp)]_vars

\* C37: savepoints do not depend on the current instance: set_instance
\* leaves every restorable savepoint restorable to the same state, and a
\* successful commit releases the handle ID of the storage object of every
\* savepoint which was restorable under the instance that created it.
C37_SavepointsIgnoreInstance ==
    /\ [][last'.op = "set_instance" =>
            \A sp \in DOMAIN savepoints :
               restore_result(sp).res = "ok" => restore_result(sp)' = restore_result(sp)]_vars
    /\ [][(last'.op = "commit" /\ last'.res = "ok") =>
            \A sp \in DOMAIN savepoints :
               (/\ IdTable_contains(handle_table, savepoints[sp].handle_id)
                /\ \A i \in 1..Len(savepoints[sp].chunks) :
                      /\ savepoints[sp].chunks[i] \in DOMAIN chunks
                      /\ savepoints[sp].handle_id
                            \in chunks[savepoints[sp].chunks[i]].references)
               => ~ IdTable_contains(handle_table', savepoints[sp].handle_id)]_vars

\* C38: the managed map always has an entry for the current instance, so
\* managed_map and managed_map_mut never unwrap None.
C38_CurrentInstanceHasMap ==
    has_managed_map

\* C40: whenever SuperBlock::read returns Ok, the primary and the backup copy
\* decode to the same superblock afterwards.
C40_ReadLeavesCopiesEqual ==
    (archive.call.op = "read" /\ archive.call.ok) =>
        read_at(archive.primary) = read_at(archive.backup)

\* C33: a Header::write which is not killed appends the header and returns
\* Ok, and Header::read then returns the header written, at the address
\* which write returned; after a write which was killed, Header::read
\* returns what it returned before the write or the header written.
C33_HeaderWriteRoundTrips ==
    header_file.call.op = "write" =>
        LET r == Header_read(header_file.bytes)
        IN IF header_file.call.ret = "killed"
           THEN \/ (r.ok = header_file.call.readable.ok
                    /\ r.header = header_file.call.readable.header)
                \/ (r.ok /\ r.header = header_file.call.header)
           ELSE /\ header_file.call.ret = "Ok"
                /\ r = [ok |-> TRUE, header |-> header_file.call.header,
                        address |-> header_file.call.address]

====
